---- MODULE Spec2Model ----
(***************************************************************************)
(* A model of minecraft/conn.go: the connection facade (Close, ReadPacket, *)
(* Write, Flush and the flush ticker started by newConn) and the login     *)
(* handshake driven by handleIncoming.                                     *)
(*                                                                         *)
(* Every task of a connection (goroutine or user call) owns a "pc": the    *)
(* sequence of operations its running call still has to perform, in the    *)
(* order the code performs them.  One action executes the head operation;  *)
(* an operation that blocks in the code (a channel send or receive, a      *)
(* mutex acquisition) is an action whose guard is the condition the code   *)
(* waits for.                                                              *)
(***************************************************************************)
EXTENDS Naturals, Integers, Sequences, FiniteSets, TLC

\* Bounds of the model.
NumClosers == 2      \* user tasks that call Close()
NumReaders == 2      \* user tasks that call ReadPacket()
NumWriters == 1      \* user tasks that call WritePacket()
MaxCalls == 2        \* calls each closer makes
MaxReads == 1        \* calls each reader makes
MaxWrites == 1       \* calls each writer makes
MaxInbound == 3      \* payloads a peer of the handshake specification sends
MaxSaltSeed == 1     \* the salts of the key specification are SaltOf(0..MaxSaltSeed)
MaxPrivateKey == 3   \* its private keys are 2..MaxPrivateKey
MaxSends == 1        \* calls of Write() each of the two senders makes
MaxFlushes == 1      \* calls of Flush() the flusher makes
MaxClock == 2        \* the last instant of the clock
MaxSets == 2         \* calls of SetReadDeadline and SetDeadline the setter makes
MaxServerScript == 7 \* payloads the server of the download specification sends
MaxClientScript == 6 \* payloads the client of the upload specification sends

\* Program constants.
CloseCap == 1        \* close: make(chan bool, 1)
PacketsCap == 32     \* packets: make(chan []byte, 32)

Endpoints == {"server", "client"}

\* The tasks of one connection.
Ticker == <<"ticker", 0>>
Closers == {<<"closer", i>> : i \in 1..NumClosers}
Readers == {<<"reader", i>> : i \in 1..NumReaders}
Writers == {<<"writer", i>> : i \in 1..NumWriters}
\* The task that reads the transport and calls handleIncoming on every payload.
TransportReader == <<"transport", 0>>
\* The task that runs Dial and waits for the connected signal.
Dialer == <<"dial", 0>>
Senders == {<<"sender", 1>>, <<"sender", 2>>}
Flusher == <<"flusher", 0>>
Setter == <<"setter", 0>>
\* The UUIDs of the packs of the pack specifications; a goroutine downloads each.
PackUUIDs == {"a", "b"}
Fetchers == {<<"fetcher", u>> : u \in PackUUIDs}
Procs ==
    {Ticker, TransportReader, Dialer, Flusher, Setter}
    \cup Closers \cup Readers \cup Writers \cup Senders \cup Fetchers

\* The tasks that run in each specification: the other tasks of Procs are never
\* started there.
UserTasks == {Ticker} \cup Closers \cup Readers \cup Writers
SendTasks == {Ticker, Flusher} \cup Senders
DeadlineTasks == {Setter} \cup Readers
HandshakeTasks == {Ticker, TransportReader, Dialer}
DownloadTasks == {TransportReader, Dialer} \cup Fetchers
UploadTasks == {TransportReader}
\* One user task calls ReadPacket while the transport reader handles payloads.
UserReader == <<"reader", 1>>
InboundTasks == {TransportReader, UserReader}

Free == <<"free", 0>>

\* Return values.
Err(message) == [err |-> message]
Nil == Err("nil")
ErrEncode == Err("error encoding packet batch")
ErrClosed == Err("error reading packet: connection closed")
ErrTimeout == Err("error reading packet: read timeout")
ErrUseOfClosed == Err("use of closed network connection")
ErrDeadline == Err("error setting read deadline: time passed is before time.Now()")
\* What a call returned is a packet (ReadPacket) and not an error or nil.
IsPacket(v) == "id" \in DOMAIN v

----------------------------------------------------------------------------
\* Key agreement: a small cyclic group stands for the curve P-384, a tagged value
\* for SHA-256 (injective), and base64 is computed on 6-bit symbols.

GroupP == 65521
GroupG == 17
SaltLen == 16

RECURSIVE Pow(_, _)
Pow(b, e) == IF e = 0 THEN 1 ELSE (b * Pow(b, e - 1)) % GroupP

\* privateKey.PublicKey
PublicKey(d) == Pow(GroupG, d)

\* Curve.ScalarMult(pub.X, pub.Y, d): the X coordinate of the shared point.
ScalarMult(pub, d) == Pow(pub, d)

\* big.Int.Bytes(): big-endian, without leading zero bytes.
RECURSIVE Bytes(_)
Bytes(x) == IF x = 0 THEN <<>> ELSE Bytes(x \div 256) \o <<x % 256>>

\* sha256.Sum256
Sum256(b) == <<"sha256", b>>

Pad == 64

\* base64.StdEncoding.EncodeToString
RECURSIVE StdEncodeToString(_)
StdEncodeToString(b) ==
    IF Len(b) = 0 THEN <<>>
    ELSE IF Len(b) = 1
         THEN <<b[1] \div 4, (b[1] % 4) * 16, Pad, Pad>>
    ELSE IF Len(b) = 2
         THEN <<b[1] \div 4, (b[1] % 4) * 16 + b[2] \div 16, (b[2] % 16) * 4, Pad>>
    ELSE <<b[1] \div 4, (b[1] % 4) * 16 + b[2] \div 16,
           (b[2] % 16) * 4 + b[3] \div 64, b[3] % 64>>
         \o StdEncodeToString(SubSeq(b, 4, Len(b)))

\* A trim that removes nothing.
TrimNone(str) == str

\* strings.TrimRight(s, "=")
RECURSIVE TrimRight(_)
TrimRight(s) ==
    IF Len(s) > 0 /\ s[Len(s)] = Pad THEN TrimRight(SubSeq(s, 1, Len(s) - 1)) ELSE s

\* base64.RawStdEncoding.DecodeString: [ok, bytes]; padding is illegal input.
RECURSIVE DecodeString(_)
DecodeString(s) ==
    IF Len(s) = 0 THEN [ok |-> TRUE, bytes |-> <<>>]
    ELSE IF \E i \in 1..(IF Len(s) < 4 THEN Len(s) ELSE 4) : s[i] = Pad
         THEN [ok |-> FALSE, bytes |-> <<>>]
    ELSE IF Len(s) = 1 THEN [ok |-> FALSE, bytes |-> <<>>]
    ELSE IF Len(s) = 2
         THEN [ok |-> TRUE, bytes |-> <<s[1] * 4 + s[2] \div 16>>]
    ELSE IF Len(s) = 3
         THEN [ok |-> TRUE,
               bytes |-> <<s[1] * 4 + s[2] \div 16, (s[2] % 16) * 16 + s[3] \div 4>>]
    ELSE LET rest == DecodeString(SubSeq(s, 5, Len(s)))
         IN  [ok |-> rest.ok,
              bytes |-> IF rest.ok
                        THEN <<s[1] * 4 + s[2] \div 16, (s[2] % 16) * 16 + s[3] \div 4,
                               (s[3] % 4) * 64 + s[4]>> \o rest.bytes
                        ELSE <<>>]

\* jwt.MarshalPublicKey and jwt.ParsePublicKey: the x5u text of a public key.
MarshalPublicKey(pub) == <<"x5u", pub>>
ParsePublicKey(x5u) == x5u[2]

\* jwt.New(header, payload, privateKey): the token the server sends.
NewJWT(alg, x5u, payload, d) ==
    [alg |-> alg, x5u |-> x5u, payload |-> payload, signedBy |-> PublicKey(d)]

----------------------------------------------------------------------------
\* Packets.

IDLogin == "Login"
IDPlayStatus == "PlayStatus"
IDServerToClientHandshake == "ServerToClientHandshake"
IDClientToServerHandshake == "ClientToServerHandshake"
IDDisconnect == "Disconnect"
IDResourcePacksInfo == "ResourcePacksInfo"
IDResourcePackStack == "ResourcePackStack"
IDResourcePackClientResponse == "ResourcePackClientResponse"
IDResourcePackDataInfo == "ResourcePackDataInfo"
IDResourcePackChunkData == "ResourcePackChunkData"
IDResourcePackChunkRequest == "ResourcePackChunkRequest"
IDRequestChunkRadius == "RequestChunkRadius"
IDStartGame == "StartGame"
IDText == "Text"

\* protocol.CurrentProtocol
CurrentProtocol == 1

PlayStatusLoginSuccess == "LoginSuccess"
PlayStatusLoginFailedClient == "LoginFailedClient"
PlayStatusLoginFailedServer == "LoginFailedServer"
PlayStatusPlayerSpawn == "PlayerSpawn"
PlayStatusLoginFailedInvalidTenant == "LoginFailedInvalidTenant"
PlayStatusLoginFailedVanillaEdu == "LoginFailedVanillaEdu"
PlayStatusLoginFailedEduVanilla == "LoginFailedEduVanilla"
PlayStatusLoginFailedServerFull == "LoginFailedServerFull"

PackResponseRefused == "Refused"
PackResponseSendPacks == "SendPacks"
PackResponseAllPacksDownloaded == "AllPacksDownloaded"
PackResponseCompleted == "Completed"

NoPacket == [id |-> "none"]
\* A packet handleIncoming ignored.
Dropped(pk) == [id |-> "dropped", pk |-> pk]

\* A payload whose header cannot be read.
Undecodable == [id |-> "undecodable"]

\* request: what login.Verify, login.Decode and Validate make of the connection
\* request: "ok", "verifyError", "unauthenticated", "decodeError",
\* "invalidIdentity" or "invalidClientData".
Login(protocol, request, pub) ==
    [id |-> IDLogin, ClientProtocol |-> protocol, request |-> request, publicKey |-> pub]
PlayStatus(status) == [id |-> IDPlayStatus, Status |-> status]
ServerToClientHandshake(jwt) == [id |-> IDServerToClientHandshake, JWT |-> jwt]
ClientToServerHandshake == [id |-> IDClientToServerHandshake]
Disconnect(message) == [id |-> IDDisconnect, Message |-> message]
ResourcePacksInfo(texture, behaviour) ==
    [id |-> IDResourcePacksInfo, TexturePacks |-> texture, BehaviourPacks |-> behaviour]
ResourcePackStack(texture, behaviour) ==
    [id |-> IDResourcePackStack, TexturePacks |-> texture, BehaviourPacks |-> behaviour]
ResourcePackClientResponse(response, packs) ==
    [id |-> IDResourcePackClientResponse, Response |-> response, PacksToDownload |-> packs]
\* Data: the bytes of a chunk, as their number (len) and the pack whose content they
\* are cut from (of).
ResourcePackChunkData(uuid, index, offset, data) ==
    [id |-> IDResourcePackChunkData, UUID |-> uuid, ChunkIndex |-> index,
     DataOffset |-> offset, Data |-> data]
ResourcePackChunkRequest(uuid, index) ==
    [id |-> IDResourcePackChunkRequest, UUID |-> uuid, ChunkIndex |-> index]

VARIABLES
    live,           \* the connections that newConn has constructed
    pc,             \* pc[c][p]: operations task p of connection c still has to perform
    ret,            \* ret[c][p]: the value the last finished call or step of p returned
    calls,          \* calls[c][p]: the calls user task p has made
    close,          \* conn.close: the number of tokens in the channel
    packets,        \* conn.packets: the queued inbound payloads
    readDeadline,   \* conn.readDeadline: the index in timers of the channel it holds,
                    \* or NilChannel
    sendMutex,      \* conn.sendMutex: the task that holds it, or Free
    bufferedSend,   \* conn.bufferedSend
    encoded,        \* the batches encoder.Encode wrote to the transport, in order,
                    \* each with the key the encoder held ("none": plaintext)
    connClosed,     \* the number of conn.conn.Close() calls made
    closeSent,      \* the number of tokens Close() has sent on conn.close
    faulty,         \* the connections whose transport may fail a write
    traced,         \* the connections whose calls of encoder.Encode are recorded
    loggedIn,       \* conn.loggedIn
    expectedIDs,    \* conn.expectedIDs
    encoderKey,     \* conn.encoder: the key EnableEncryption set, or "none"
    decoderKey,     \* conn.decoder: the key EnableEncryption set, or "none"
    encEnables,     \* the number of conn.encoder.EnableEncryption calls made
    decEnables,     \* the number of conn.decoder.EnableEncryption calls made
    salt,           \* conn.salt
    privateKey,     \* conn.privateKey
    resourcePacks,  \* conn.resourcePacks
    packQueue,      \* conn.packQueue
    handling,       \* the packet handleIncoming read and is dispatching, or NoPacket
    delivered,      \* the number of payloads the transport reader passed to handleIncoming
    received,       \* the number of the peer's batches the decoder has read
    submitted,      \* the payloads of the Write calls, in the order they took the mutex
    handedOver,     \* the batches Flush passed to the encoder of a traced connection,
                    \* in order, each with whether Encode accepted it
    clock,          \* time.Now(), in ticks
    timers          \* timers[c][k]: the channel of the k-th time.After of connection c

\* The harness: which connections exist and which transports may fail.
cfgVars == <<live, faulty, traced>>

\* The record of what was written and handed to the encoder.
logVars == <<submitted, handedOver>>

\* The clock and the channels of time.After.
timeVars == <<clock, timers>>

\* The state of the handshake engine.
hsVars == <<loggedIn, expectedIDs, encoderKey, decoderKey, encEnables, decEnables,
            salt, privateKey, resourcePacks, packQueue, handling, delivered, received>>

vars == <<pc, ret, calls, close, packets, readDeadline, sendMutex,
          bufferedSend, encoded, connClosed, closeSent, cfgVars, logVars, timeVars,
          hsVars>>

----------------------------------------------------------------------------
\* Operations a pc is made of.

Op(name) == [op |-> name]

\* Flush(): Lock, then the body under the lock.
FlushOps == <<Op("flushLock"), Op("flushEncode")>>

\* Close(): the check of len(conn.close), Flush, the send, the transport close.
CloseTail == FlushOps \o <<Op("closeSend"), Op("connClose")>>
CloseOps == <<Op("closeCheck")>> \o CloseTail

TickerLoop == <<Op("tickerSelect")>>

\* The statements of the handshake handlers.
Expect(ids) == [op |-> "expect", ids |-> ids]
WritePacket(pk) == [op |-> "write", pk |-> pk]
EnableEncoder(key) == [op |-> "enableEncoder", key |-> key]
EnableDecoder(key) == [op |-> "enableDecoder", key |-> key]
SetPackQueue(q) == [op |-> "setPackQueue", queue |-> q]
SetLoggedIn == Op("setLoggedIn")
SendConnected == Op("sendConnected")
Return(err) == [op |-> "return", err |-> err]
\* "return f()": the value f returned is returned.
ReturnLast == Op("returnLast")

\* ReadPacket and Read: the select, on the channels the operands name when it is
\* entered.
ReadSelect(c) == [op |-> "readSelect", timer |-> readDeadline[c]]

\* handleIncoming(data), and the transport reader's check of what it returned.
HandleIncomingOps(data) == <<[op |-> "enqueue", data |-> data], Op("handled")>>

At(c, p, name) == pc[c][p] # <<>> /\ Head(pc[c][p]).op = name

Rest(c, p) == Tail(pc[c][p])

\* encoder.Encode writes to the transport: it fails on a closed transport, and may
\* fail on an open one.
EncodeOutcomes(c) ==
    IF connClosed[c] > 0 THEN {FALSE} ELSE IF c \in faulty THEN BOOLEAN ELSE {TRUE}

\* Close(): "if len(conn.close) != 0 { return nil }".
AlreadyClosed(c) == close[c] # 0

----------------------------------------------------------------------------
\* newConn, and what Listener and Dial set before the first packet.

\* The salt and the private keys of the handshake specifications.
FixedSalt == [i \in 1..SaltLen |-> (37 * i) % 256]
ServerPrivateKey == 5
ClientPrivateKey == 3

NoPackQueue == [role |-> "none"]

\* The zero value of conn.readDeadline: a nil channel, on which a receive never succeeds.
NilChannel == 0

\* time.Time{}, and the first instant time.Now() returns.
ZeroTime == 0
StartOfTime == 1

\* Dial: the packet IDs a client expects first are {PlayStatus}, or
\* {ServerToClientHandshake} when Dial sets them for a server that encrypts, or both.
DialExpectedIDs ==
    {{IDPlayStatus}, {IDServerToClientHandshake}, {IDServerToClientHandshake, IDPlayStatus}}

\* Dial waits for the connected signal.
DialWait == <<Op("recvConnected")>>

\* The state after newConn, for the connections lv, of which flt have a transport
\* that may fail and trc are traced; the server owns the packs owned and uses the
\* salt slt, the private keys are keys[c], and Dial has set the client's expected IDs
\* to ids and goes on with the statements dial.
NewConnTraced(lv, flt, trc, owned, slt, keys, ids, dial) ==
    /\ live = lv
    /\ faulty = flt
    /\ traced = trc
    /\ pc = [c \in Endpoints |-> [p \in Procs |->
                IF c \in lv /\ p = Ticker THEN TickerLoop
                ELSE IF c \in lv /\ c = "client" /\ p = Dialer THEN dial
                ELSE <<>>]]
    /\ ret = [c \in Endpoints |-> [p \in Procs |-> Nil]]
    /\ calls = [c \in Endpoints |-> [p \in Procs |-> 0]]
    /\ close = [c \in Endpoints |-> 0]
    /\ packets = [c \in Endpoints |-> <<>>]
    /\ readDeadline = [c \in Endpoints |-> NilChannel]
    /\ sendMutex = [c \in Endpoints |-> Free]
    /\ bufferedSend = [c \in Endpoints |-> <<>>]
    /\ encoded = [c \in Endpoints |-> <<>>]
    /\ connClosed = [c \in Endpoints |-> 0]
    /\ closeSent = [c \in Endpoints |-> 0]
    /\ loggedIn = [c \in Endpoints |-> FALSE]
    /\ expectedIDs = [c \in Endpoints |->
                        IF c = "client" THEN ids ELSE {IDLogin}]
    /\ encoderKey = [c \in Endpoints |-> "none"]
    /\ decoderKey = [c \in Endpoints |-> "none"]
    /\ encEnables = [c \in Endpoints |-> 0]
    /\ decEnables = [c \in Endpoints |-> 0]
    /\ salt = [c \in Endpoints |-> slt]
    /\ privateKey = keys
    /\ resourcePacks = [c \in Endpoints |-> IF c = "server" THEN owned ELSE <<>>]
    /\ packQueue = [c \in Endpoints |-> NoPackQueue]
    /\ handling = [c \in Endpoints |-> NoPacket]
    /\ delivered = [c \in Endpoints |-> 0]
    /\ received = [c \in Endpoints |-> 0]
    /\ submitted = [c \in Endpoints |-> <<>>]
    /\ handedOver = [c \in Endpoints |-> <<>>]
    /\ clock = StartOfTime
    /\ timers = [c \in Endpoints |-> <<>>]

NewConn(lv, flt, owned, slt, keys, ids, dial) ==
    NewConnTraced(lv, flt, {}, owned, slt, keys, ids, dial)

FixedKeys == [c \in Endpoints |-> IF c = "server" THEN ServerPrivateKey ELSE ClientPrivateKey]

\* One connection, used through its facade by user tasks.
Init ==
    NewConn({"server"}, {"server"}, <<>>, FixedSalt, FixedKeys, {IDServerToClientHandshake},
            DialWait)

----------------------------------------------------------------------------
\* Flush

\* conn.sendMutex.Lock()
FlushLock(c, p) ==
    /\ At(c, p, "flushLock")
    /\ sendMutex[c] = Free
    /\ sendMutex' = [sendMutex EXCEPT ![c] = p]
    /\ pc' = [pc EXCEPT ![c][p] = Rest(c, p)]
    /\ UNCHANGED <<ret, calls, close, packets, readDeadline, bufferedSend, encoded,
                   connClosed, closeSent, cfgVars, logVars, timeVars, hsVars>>

\* Flush that empties nothing after Encode succeeded.
FlushEncodeKeep(c, p) ==
    /\ At(c, p, "flushEncode")
    /\ sendMutex[c] = p
    /\ IF Len(bufferedSend[c]) > 0
       THEN \E ok \in EncodeOutcomes(c) :
               /\ handedOver' = [handedOver EXCEPT ![c] =
                                    IF c \in traced
                                    THEN Append(@, [batch |-> bufferedSend[c], ok |-> ok])
                                    ELSE @]
               /\ encoded' = [encoded EXCEPT ![c] =
                                 IF ok THEN Append(@, [batch |-> bufferedSend[c],
                                                       key |-> encoderKey[c]])
                                 ELSE @]
               /\ ret' = [ret EXCEPT ![c][p] = IF ok THEN Nil ELSE ErrEncode]
       ELSE /\ ret' = [ret EXCEPT ![c][p] = Nil]
            /\ UNCHANGED <<encoded, handedOver>>
    /\ sendMutex' = [sendMutex EXCEPT ![c] = Free]
    /\ pc' = [pc EXCEPT ![c][p] = Rest(c, p)]
    /\ UNCHANGED <<calls, close, packets, readDeadline, bufferedSend, connClosed, closeSent,
                   cfgVars, submitted, timeVars, hsVars>>

\* The body of Flush and the deferred Unlock.
FlushEncode(c, p) ==
    /\ At(c, p, "flushEncode")
    /\ sendMutex[c] = p
    /\ IF Len(bufferedSend[c]) > 0
       THEN \E ok \in EncodeOutcomes(c) :
               /\ handedOver' = [handedOver EXCEPT ![c] =
                                    IF c \in traced
                                    THEN Append(@, [batch |-> bufferedSend[c], ok |-> ok])
                                    ELSE @]
               /\ IF ok
                  THEN /\ encoded' = [encoded EXCEPT ![c] = Append(@,
                                         [batch |-> bufferedSend[c], key |-> encoderKey[c]])]
                       /\ bufferedSend' = [bufferedSend EXCEPT ![c] = <<>>]
                       /\ ret' = [ret EXCEPT ![c][p] = Nil]
                  ELSE /\ ret' = [ret EXCEPT ![c][p] = ErrEncode]
                       /\ UNCHANGED <<encoded, bufferedSend>>
       ELSE /\ ret' = [ret EXCEPT ![c][p] = Nil]
            /\ UNCHANGED <<encoded, bufferedSend, handedOver>>
    /\ sendMutex' = [sendMutex EXCEPT ![c] = Free]
    /\ pc' = [pc EXCEPT ![c][p] = Rest(c, p)]
    /\ UNCHANGED <<calls, close, packets, readDeadline, connClosed, closeSent,
                   cfgVars, submitted, timeVars, hsVars>>

----------------------------------------------------------------------------
\* Write

\* Write that puts the payload in front of the buffer.
WritePrepend(c, p) ==
    /\ At(c, p, "write")
    /\ sendMutex[c] = Free
    /\ bufferedSend' = [bufferedSend EXCEPT ![c] = <<Head(pc[c][p]).pk>> \o @]
    /\ submitted' = [submitted EXCEPT ![c] = Append(@, Head(pc[c][p]).pk)]
    /\ ret' = [ret EXCEPT ![c][p] = Nil]
    /\ pc' = [pc EXCEPT ![c][p] = Rest(c, p)]
    /\ UNCHANGED <<calls, close, packets, readDeadline, sendMutex, encoded,
                   connClosed, closeSent, cfgVars, handedOver, timeVars, hsVars>>

\* Write(b): Lock, append, Unlock.
Write(c, p) ==
    /\ At(c, p, "write")
    /\ sendMutex[c] = Free
    /\ bufferedSend' = [bufferedSend EXCEPT ![c] = Append(@, Head(pc[c][p]).pk)]
    /\ submitted' = [submitted EXCEPT ![c] = Append(@, Head(pc[c][p]).pk)]
    /\ ret' = [ret EXCEPT ![c][p] = Nil]
    /\ pc' = [pc EXCEPT ![c][p] = Rest(c, p)]
    /\ UNCHANGED <<calls, close, packets, readDeadline, sendMutex, encoded,
                   connClosed, closeSent, cfgVars, handedOver, timeVars, hsVars>>

----------------------------------------------------------------------------
\* Close

CloseCheck(c, p) ==
    /\ At(c, p, "closeCheck")
    /\ IF AlreadyClosed(c)
       THEN /\ pc' = [pc EXCEPT ![c][p] = SubSeq(@, Len(CloseOps) + 1, Len(@))]
            /\ ret' = [ret EXCEPT ![c][p] = Nil]
       ELSE /\ pc' = [pc EXCEPT ![c][p] = Rest(c, p)]
            /\ UNCHANGED ret
    /\ UNCHANGED <<calls, close, packets, readDeadline, sendMutex, bufferedSend,
                   encoded, connClosed, closeSent, cfgVars, logVars, timeVars, hsVars>>

\* conn.close <- true
CloseSend(c, p) ==
    /\ At(c, p, "closeSend")
    /\ close[c] < CloseCap
    /\ close' = [close EXCEPT ![c] = @ + 1]
    /\ closeSent' = [closeSent EXCEPT ![c] = @ + 1]
    /\ pc' = [pc EXCEPT ![c][p] = Rest(c, p)]
    /\ UNCHANGED <<ret, calls, packets, readDeadline, sendMutex, bufferedSend,
                   encoded, connClosed, cfgVars, logVars, timeVars, hsVars>>

\* return conn.conn.Close()
ConnClose(c, p) ==
    /\ At(c, p, "connClose")
    /\ connClosed' = [connClosed EXCEPT ![c] = @ + 1]
    /\ ret' = [ret EXCEPT ![c][p] = IF connClosed[c] = 0 THEN Nil ELSE ErrUseOfClosed]
    /\ pc' = [pc EXCEPT ![c][p] = Rest(c, p)]
    /\ UNCHANGED <<calls, close, packets, readDeadline, sendMutex, bufferedSend,
                   encoded, closeSent, cfgVars, logVars, timeVars, hsVars>>

----------------------------------------------------------------------------
\* The flush ticker of newConn

\* case <-ticker.C: c.Flush()
TickerTick(c) ==
    /\ At(c, Ticker, "tickerSelect")
    /\ pc' = [pc EXCEPT ![c][Ticker] = FlushOps \o <<Op("tickerFlushed")>>]
    /\ UNCHANGED <<ret, calls, close, packets, readDeadline, sendMutex, bufferedSend,
                   encoded, connClosed, closeSent, cfgVars, logVars, timeVars, hsVars>>

\* The ticker going on after a Flush that failed.
TickerFlushedGoesOn(c) ==
    /\ At(c, Ticker, "tickerFlushed")
    /\ pc' = [pc EXCEPT ![c][Ticker] = TickerLoop]
    /\ UNCHANGED <<ret, calls, close, packets, readDeadline, sendMutex, bufferedSend,
                   encoded, connClosed, closeSent, cfgVars, logVars, timeVars, hsVars>>

\* if err := c.Flush(); err != nil { return }
TickerFlushed(c) ==
    /\ At(c, Ticker, "tickerFlushed")
    /\ pc' = [pc EXCEPT ![c][Ticker] = IF ret[c][Ticker] # Nil THEN <<>> ELSE TickerLoop]
    /\ UNCHANGED <<ret, calls, close, packets, readDeadline, sendMutex, bufferedSend,
                   encoded, connClosed, closeSent, cfgVars, logVars, timeVars, hsVars>>

\* case <-c.close: the token is taken, to be sent again.
TickerClose(c) ==
    /\ At(c, Ticker, "tickerSelect")
    /\ close[c] > 0
    /\ close' = [close EXCEPT ![c] = @ - 1]
    /\ pc' = [pc EXCEPT ![c][Ticker] = <<[op |-> "closeResend", ret |-> Nil]>>]
    /\ UNCHANGED <<ret, calls, packets, readDeadline, sendMutex, bufferedSend,
                   encoded, connClosed, closeSent, cfgVars, logVars, timeVars, hsVars>>

\* c.close <- true, by a task that took the token.
CloseResend(c, p) ==
    /\ At(c, p, "closeResend")
    /\ close[c] < CloseCap
    /\ close' = [close EXCEPT ![c] = @ + 1]
    /\ ret' = [ret EXCEPT ![c][p] = Head(pc[c][p]).ret]
    /\ pc' = [pc EXCEPT ![c][p] = Rest(c, p)]
    /\ UNCHANGED <<calls, packets, readDeadline, sendMutex, bufferedSend, encoded,
                   connClosed, closeSent, cfgVars, logVars, timeVars, hsVars>>

----------------------------------------------------------------------------
\* ReadPacket, called by a user task

\* case <-conn.close
ReadClose(c, p) ==
    /\ At(c, p, "readSelect")
    /\ close[c] > 0
    /\ close' = [close EXCEPT ![c] = @ - 1]
    /\ pc' = [pc EXCEPT ![c][p] = <<[op |-> "closeResend", ret |-> ErrClosed]>> \o Rest(c, p)]
    /\ UNCHANGED <<ret, calls, packets, readDeadline, sendMutex, bufferedSend,
                   encoded, connClosed, closeSent, cfgVars, logVars, timeVars, hsVars>>

\* case <-conn.readDeadline: the value the timer sent is received.
ReadTimeout(c, p) ==
    /\ At(c, p, "readSelect")
    /\ Head(pc[c][p]).timer # NilChannel
    /\ timers[c][Head(pc[c][p]).timer].state = "ready"
    /\ timers' = [timers EXCEPT ![c][Head(pc[c][p]).timer].state = "drained"]
    /\ ret' = [ret EXCEPT ![c][p] = ErrTimeout]
    /\ pc' = [pc EXCEPT ![c][p] = Rest(c, p)]
    /\ UNCHANGED <<calls, close, packets, readDeadline, sendMutex, bufferedSend,
                   encoded, connClosed, closeSent, cfgVars, logVars, clock, hsVars>>

----------------------------------------------------------------------------
\* SetReadDeadline, SetDeadline and the timers

\* time.Hour * 1000000, in ticks.
FarAway == 1000000

\* A comparison that finds no time before another.
BeforeNever(t, u) == FALSE

\* t.Before(u)
Before(t, u) == t < u

\* time.After(d) at the instant now: the channel of a timer that sends one value
\* once d has passed.
After(now, d) == [at |-> now + d, state |-> "armed"]

\* SetReadDeadline(t)
DoSetReadDeadline(c, p) ==
    /\ At(c, p, "setReadDeadline")
    /\ LET t == Head(pc[c][p]).t IN
       IF Before(t, clock)
       THEN /\ ret' = [ret EXCEPT ![c][p] = ErrDeadline]
            /\ UNCHANGED <<readDeadline, timers>>
       ELSE /\ timers' = [timers EXCEPT ![c] = Append(@,
                              IF t = ZeroTime THEN After(clock, FarAway)
                              ELSE After(clock, t - clock))]
            /\ readDeadline' = [readDeadline EXCEPT ![c] = Len(timers[c]) + 1]
            /\ ret' = [ret EXCEPT ![c][p] = Nil]
    /\ pc' = [pc EXCEPT ![c][p] = Rest(c, p)]
    /\ UNCHANGED <<calls, close, packets, sendMutex, bufferedSend, encoded,
                   connClosed, closeSent, cfgVars, logVars, clock, hsVars>>

\* The runtime sends the time on the channel of a timer that has run out.
TimerFire(c, k) ==
    /\ k \in 1..Len(timers[c])
    /\ timers[c][k].state = "armed"
    /\ clock >= timers[c][k].at
    /\ timers' = [timers EXCEPT ![c][k].state = "ready"]
    /\ UNCHANGED <<pc, ret, calls, close, packets, readDeadline, sendMutex, bufferedSend,
                   encoded, connClosed, closeSent, cfgVars, logVars, clock, hsVars>>

\* Time passes.
ClockTick ==
    /\ clock < MaxClock
    /\ clock' = clock + 1
    /\ UNCHANGED <<pc, ret, calls, close, packets, readDeadline, sendMutex, bufferedSend,
                   encoded, connClosed, closeSent, cfgVars, logVars, timers, hsVars>>

----------------------------------------------------------------------------
\* The user tasks' calls

\* The times a user passes: the zero time and the instants up to one past the clock's
\* last.
Times == {ZeroTime} \cup StartOfTime..(MaxClock + 1)

CallSetReadDeadline(c, p, t) ==
    /\ pc[c][p] = <<>>
    /\ calls[c][p] < MaxSets
    /\ calls' = [calls EXCEPT ![c][p] = @ + 1]
    /\ pc' = [pc EXCEPT ![c][p] = <<[op |-> "setReadDeadline", t |-> t]>>]
    /\ UNCHANGED <<ret, close, packets, readDeadline, sendMutex, bufferedSend,
                   encoded, connClosed, closeSent, cfgVars, logVars, timeVars, hsVars>>

\* SetDeadline(t): "return conn.SetReadDeadline(t)".
CallSetDeadline(c, p, t) ==
    /\ pc[c][p] = <<>>
    /\ calls[c][p] < MaxSets
    /\ calls' = [calls EXCEPT ![c][p] = @ + 1]
    /\ pc' = [pc EXCEPT ![c][p] = <<[op |-> "setReadDeadline", t |-> t], ReturnLast>>]
    /\ UNCHANGED <<ret, close, packets, readDeadline, sendMutex, bufferedSend,
                   encoded, connClosed, closeSent, cfgVars, logVars, timeVars, hsVars>>

UserPacket == [id |-> "Text"]

CallClose(c, p) ==
    /\ pc[c][p] = <<>>
    /\ calls[c][p] < MaxCalls
    /\ calls' = [calls EXCEPT ![c][p] = @ + 1]
    /\ pc' = [pc EXCEPT ![c][p] = CloseOps]
    /\ UNCHANGED <<ret, close, packets, readDeadline, sendMutex, bufferedSend,
                   encoded, connClosed, closeSent, cfgVars, logVars, timeVars, hsVars>>

CallReadPacket(c, p) ==
    /\ pc[c][p] = <<>>
    /\ calls[c][p] < MaxReads
    /\ calls' = [calls EXCEPT ![c][p] = @ + 1]
    /\ pc' = [pc EXCEPT ![c][p] = <<ReadSelect(c)>>]
    /\ UNCHANGED <<ret, close, packets, readDeadline, sendMutex, bufferedSend,
                   encoded, connClosed, closeSent, cfgVars, logVars, timeVars, hsVars>>

CallWritePacket(c, p) ==
    /\ pc[c][p] = <<>>
    /\ calls[c][p] < MaxWrites
    /\ calls' = [calls EXCEPT ![c][p] = @ + 1]
    /\ pc' = [pc EXCEPT ![c][p] = <<WritePacket(UserPacket)>>]
    /\ UNCHANGED <<ret, close, packets, readDeadline, sendMutex, bufferedSend,
                   encoded, connClosed, closeSent, cfgVars, logVars, timeVars, hsVars>>

\* The byte slice of the n-th Write(b) of task p.
Payload(p, n) == [id |-> IDText, from |-> p, n |-> n]

CallWrite(c, p) ==
    /\ pc[c][p] = <<>>
    /\ calls[c][p] < MaxSends
    /\ calls' = [calls EXCEPT ![c][p] = @ + 1]
    /\ pc' = [pc EXCEPT ![c][p] = <<WritePacket(Payload(p, calls[c][p] + 1))>>]
    /\ UNCHANGED <<ret, close, packets, readDeadline, sendMutex, bufferedSend,
                   encoded, connClosed, closeSent, cfgVars, logVars, timeVars, hsVars>>

CallFlush(c, p) ==
    /\ pc[c][p] = <<>>
    /\ calls[c][p] < MaxFlushes
    /\ calls' = [calls EXCEPT ![c][p] = @ + 1]
    /\ pc' = [pc EXCEPT ![c][p] = FlushOps]
    /\ UNCHANGED <<ret, close, packets, readDeadline, sendMutex, bufferedSend,
                   encoded, connClosed, closeSent, cfgVars, logVars, timeVars, hsVars>>

----------------------------------------------------------------------------
\* The handshake handlers: the statements each performs, in order.

\* A search that finds every packet.
FoundAny(ids, id) == TRUE

\* A search that gives Disconnect no special place.
FoundExpected(ids, id) == id \in ids

\* handleIncoming: the search of conn.expectedIDs.
Found(ids, id) == \E e \in ids : e = id \/ id = IDDisconnect

\* enableEncryption(clientPublicKey)
enableEncryption(c, clientPublicKey) ==
    LET pubKey == MarshalPublicKey(PublicKey(privateKey[c]))
        payload == [salt |-> StdEncodeToString(salt[c])]
        serverJWT == NewJWT("ES384", pubKey, payload, privateKey[c])
        sharedSecret == Bytes(ScalarMult(clientPublicKey, privateKey[c]))
        keyBytes == Sum256(salt[c] \o sharedSecret)
    IN  <<WritePacket(ServerToClientHandshake(serverJWT))>>
        \o FlushOps
        \o <<EnableEncoder(keyBytes), EnableDecoder(keyBytes)>>

\* handleLogin with the two failure statuses exchanged.
handleLoginSwapped(c, pk) ==
    <<Expect({IDClientToServerHandshake})>>
    \o IF pk.ClientProtocol # CurrentProtocol
       THEN LET status == IF pk.ClientProtocol > CurrentProtocol
                          THEN PlayStatusLoginFailedClient
                          ELSE PlayStatusLoginFailedServer
            IN  <<WritePacket(PlayStatus(status))>> \o CloseOps \o <<ReturnLast>>
       ELSE IF pk.request # "ok"
            THEN <<Return(Err("login request rejected"))>>
       ELSE enableEncryption(c, pk.publicKey) \o <<Return(Nil)>>

handleLogin(c, pk) ==
    <<Expect({IDClientToServerHandshake})>>
    \o IF pk.ClientProtocol # CurrentProtocol
       THEN LET status == IF pk.ClientProtocol > CurrentProtocol
                          THEN PlayStatusLoginFailedServer
                          ELSE PlayStatusLoginFailedClient
            IN  <<WritePacket(PlayStatus(status))>> \o CloseOps \o <<ReturnLast>>
       ELSE IF pk.request = "verifyError"
            THEN <<Return(Err("error verifying login request"))>>
       ELSE IF pk.request = "unauthenticated"
            THEN <<Return(Err("connection was not authenticated to XBOX Live"))>>
       ELSE IF pk.request = "decodeError"
            THEN <<Return(Err("error decoding login request"))>>
       ELSE IF pk.request = "invalidIdentity"
            THEN <<Return(Err("invalid identity data"))>>
       ELSE IF pk.request = "invalidClientData"
            THEN <<Return(Err("invalid client data"))>>
       ELSE enableEncryption(c, pk.publicKey) \o <<Return(Nil)>>

\* The entries of ResourcePacksInfo and ResourcePackStack for the owned packs with
\* HasBehaviours() = behaviours.
RECURSIVE PackEntries(_, _, _)
PackEntries(packs, behaviours, withSize) ==
    IF packs = <<>> THEN <<>>
    ELSE LET pack == Head(packs)
             entry == IF withSize
                      THEN [UUID |-> pack.uuid, Version |-> pack.version, Size |-> pack.size]
                      ELSE [UUID |-> pack.uuid, Version |-> pack.version]
         IN  (IF pack.behaviours = behaviours THEN <<entry>> ELSE <<>>)
             \o PackEntries(Tail(packs), behaviours, withSize)

handleClientToServerHandshake(c, pk) ==
    <<Expect({IDResourcePackClientResponse}),
      WritePacket(PlayStatus(PlayStatusLoginSuccess)),
      WritePacket(ResourcePacksInfo(PackEntries(resourcePacks[c], FALSE, TRUE),
                                    PackEntries(resourcePacks[c], TRUE, TRUE))),
      Return(Nil)>>

\* jwt.AllowedAlg
AllowedAlg(alg) == alg = "ES384"

\* jwt.Verify(JWT, pubKey, false): the token is signed by the owner of pubKey.
VerifyJWT(jwt, pubKey) == jwt.signedBy = pubKey

handleServerToClientHandshake(c, pk) ==
    LET jwt == pk.JWT IN
    IF ~AllowedAlg(jwt.alg)
    THEN <<Return(Err("ServerToClientHandshake JWT header had unexpected alg"))>>
    ELSE IF ~VerifyJWT(jwt, ParsePublicKey(jwt.x5u))
    THEN <<Return(Err("error verifying ServerToClientHandshake JWT"))>>
    ELSE IF "salt" \notin DOMAIN jwt.payload
    THEN <<Return(Err("ServerToClientHandshake JWT payload contained no 'salt'"))>>
    ELSE LET b64Salt == TrimRight(jwt.payload.salt)
             decoded == DecodeString(b64Salt)
             pubKey == ParsePublicKey(jwt.x5u)
             sharedSecret == Bytes(ScalarMult(pubKey, privateKey[c]))
             keyBytes == Sum256(decoded.bytes \o sharedSecret)
         IN  IF ~decoded.ok
             THEN <<Return(Err("error base64 decoding ServerToClientHandshake salt"))>>
             ELSE <<EnableEncoder(keyBytes), EnableDecoder(keyBytes),
                    WritePacket(ClientToServerHandshake), ReturnLast>>

handlePlayStatus(c, pk) ==
    IF pk.Status = PlayStatusLoginSuccess
    THEN <<Expect({IDResourcePacksInfo}), Return(Nil)>>
    ELSE IF pk.Status = PlayStatusLoginFailedClient
    THEN CloseOps \o <<Return(Err("client outdated"))>>
    ELSE IF pk.Status = PlayStatusLoginFailedServer
    THEN CloseOps \o <<Return(Err("server outdated"))>>
    ELSE IF pk.Status = PlayStatusPlayerSpawn
    THEN <<Return(Nil)>>
    ELSE IF pk.Status = PlayStatusLoginFailedInvalidTenant
    THEN CloseOps \o <<Return(Err("invalid edu edition game owner"))>>
    ELSE IF pk.Status = PlayStatusLoginFailedVanillaEdu
    THEN CloseOps \o <<Return(Err("cannot join an edu edition game on vanilla"))>>
    ELSE IF pk.Status = PlayStatusLoginFailedEduVanilla
    THEN CloseOps \o <<Return(Err("cannot join a vanilla game on edu edition"))>>
    ELSE IF pk.Status = PlayStatusLoginFailedServerFull
    THEN CloseOps \o <<Return(Err("server full"))>>
    ELSE <<Return(Err("unknown play status in PlayStatus packet"))>>

\* The downloadingPacks of handleResourcePacksInfo: one entry per UUID.
DownloadingPacks(entries) ==
    [u \in {entries[i].UUID : i \in 1..Len(entries)} |->
        LET i == CHOOSE j \in 1..Len(entries) :
                     /\ entries[j].UUID = u
                     /\ \A k \in (j + 1)..Len(entries) : entries[k].UUID # u
        IN  [size |-> entries[i].Size, buf |-> <<>>, chunkSize |-> 0, expectedIndex |-> 0]]

PacksToDownload(entries) == [i \in 1..Len(entries) |-> <<entries[i].UUID, "_", entries[i].Version>>]

handleResourcePacksInfo(c, pk) ==
    LET entries == pk.TexturePacks \o pk.BehaviourPacks
        queue == [role |-> "client",
                  packAmount |-> Len(pk.TexturePacks) + Len(pk.BehaviourPacks),
                  downloadingPacks |-> DownloadingPacks(entries),
                  awaitingPacks |-> <<>>]
    IN  <<SetPackQueue(queue)>>
        \o IF Len(PacksToDownload(entries)) # 0
           THEN <<Expect({IDResourcePackDataInfo, IDResourcePackChunkData}),
                  WritePacket(ResourcePackClientResponse(PackResponseSendPacks,
                                                         PacksToDownload(entries))),
                  ReturnLast>>
           ELSE <<Expect({IDResourcePackStack}),
                  WritePacket(ResourcePackClientResponse(PackResponseAllPacksDownloaded, <<>>)),
                  ReturnLast>>

hasPack(c, uuid, version, hasBehaviours) ==
    \E i \in 1..Len(resourcePacks[c]) :
        /\ resourcePacks[c][i].uuid = uuid
        /\ resourcePacks[c][i].version = version
        /\ resourcePacks[c][i].behaviours = hasBehaviours

\* handleResourcePackStack without the tests of hasPack.
handleResourcePackStackUnchecked(c, pk) ==
    <<SendConnected, SetLoggedIn,
      WritePacket(ResourcePackClientResponse(PackResponseCompleted, <<>>)),
      ReturnLast>>

handleResourcePackStack(c, pk) ==
    IF \E i \in 1..Len(pk.TexturePacks) :
           ~hasPack(c, pk.TexturePacks[i].UUID, pk.TexturePacks[i].Version, FALSE)
    THEN <<Return(Err("texture pack not downloaded"))>>
    ELSE IF \E i \in 1..Len(pk.BehaviourPacks) :
           ~hasPack(c, pk.BehaviourPacks[i].UUID, pk.BehaviourPacks[i].Version, TRUE)
    THEN <<Return(Err("behaviour pack not downloaded"))>>
    ELSE <<SendConnected, SetLoggedIn,
           WritePacket(ResourcePackClientResponse(PackResponseCompleted, <<>>)),
           ReturnLast>>

\* packChunkSize, in the model's unit of pack size.
packChunkSize == 2

\* resourcePackQueue.Request(packs): every requested "uuid_version" is looked up in the
\* owned packs; the queue serves the packs found, in the order requested.
RequestedPacks(owned, ids) ==
    [i \in 1..Len(ids) |->
        IF \E j \in 1..Len(owned) : <<owned[j].uuid, "_", owned[j].version>> = ids[i]
        THEN owned[CHOOSE j \in 1..Len(owned) :
                       <<owned[j].uuid, "_", owned[j].version>> = ids[i]]
        ELSE [uuid |-> "none"]]

RequestOk(owned, ids) ==
    \A i \in 1..Len(ids) : RequestedPacks(owned, ids)[i].uuid # "none"

ResourcePackDataInfo(pack) ==
    [id |-> IDResourcePackDataInfo, UUID |-> pack.uuid, DataChunkSize |-> packChunkSize,
     ChunkCount |-> (pack.size + packChunkSize - 1) \div packChunkSize, Size |-> pack.size]

\* nextResourcePackDownload(), on the queue the handler holds.
nextResourcePackDownload(queue) ==
    IF queue.currentPack >= Len(queue.packs)
    THEN <<Return(Err("no resource packs to download"))>>
    ELSE <<SetPackQueue([queue EXCEPT !.currentPack = @ + 1, !.currentOffset = 0]),
           WritePacket(ResourcePackDataInfo(queue.packs[queue.currentPack + 1])),
           Expect({IDResourcePackChunkRequest}),
           Return(Nil)>>

\* handleResourcePackClientResponse without the assignment of conn.loggedIn.
handleResourcePackClientResponseNoLogin(c, pk) ==
    IF pk.Response = PackResponseRefused
    THEN CloseOps \o <<ReturnLast>>
    ELSE IF pk.Response = PackResponseSendPacks
    THEN LET queue == [role |-> "server",
                       packs |-> RequestedPacks(resourcePacks[c], pk.PacksToDownload),
                       currentPack |-> 0, currentOffset |-> 0]
         IN  IF ~RequestOk(resourcePacks[c], pk.PacksToDownload)
             THEN <<SetPackQueue([queue EXCEPT !.packs = <<>>]),
                    Return(Err("error looking up resource packs to download"))>>
             ELSE <<SetPackQueue(queue)>> \o nextResourcePackDownload(queue)
    ELSE IF pk.Response = PackResponseAllPacksDownloaded
    THEN <<WritePacket(ResourcePackStack(PackEntries(resourcePacks[c], FALSE, FALSE),
                                         PackEntries(resourcePacks[c], TRUE, FALSE))),
           Return(Nil)>>
    ELSE IF pk.Response = PackResponseCompleted
    THEN <<Return(Nil)>>
    ELSE <<Return(Err("unknown resource pack client response"))>>

handleResourcePackClientResponse(c, pk) ==
    IF pk.Response = PackResponseRefused
    THEN CloseOps \o <<ReturnLast>>
    ELSE IF pk.Response = PackResponseSendPacks
    THEN LET queue == [role |-> "server",
                       packs |-> RequestedPacks(resourcePacks[c], pk.PacksToDownload),
                       currentPack |-> 0, currentOffset |-> 0]
         IN  IF ~RequestOk(resourcePacks[c], pk.PacksToDownload)
             THEN <<SetPackQueue([queue EXCEPT !.packs = <<>>]),
                    Return(Err("error looking up resource packs to download"))>>
             ELSE <<SetPackQueue(queue)>> \o nextResourcePackDownload(queue)
    ELSE IF pk.Response = PackResponseAllPacksDownloaded
    THEN <<WritePacket(ResourcePackStack(PackEntries(resourcePacks[c], FALSE, FALSE),
                                         PackEntries(resourcePacks[c], TRUE, FALSE))),
           Return(Nil)>>
    ELSE IF pk.Response = PackResponseCompleted
    THEN <<SetLoggedIn, Return(Nil)>>
    ELSE <<Return(Err("unknown resource pack client response"))>>

\* The goroutine that downloads the pack uuid.
Fetcher(uuid) == <<"fetcher", uuid>>

\* The loop of the goroutine from index i on, and the statements after it.
RECURSIVE FetchOps(_, _, _)
FetchOps(uuid, i, chunkCount) ==
    IF i >= chunkCount THEN <<[op |-> "fetchDone", uuid |-> uuid]>>
    ELSE <<WritePacket(ResourcePackChunkRequest(uuid, i)), [op |-> "recvFrag", uuid |-> uuid]>>
         \o FetchOps(uuid, i + 1, chunkCount)

handleResourcePackDataInfo(c, pk) ==
    IF pk.UUID \notin DOMAIN packQueue[c].downloadingPacks
    THEN <<Return(Err("unknown pack to download"))>>
    ELSE IF packQueue[c].downloadingPacks[pk.UUID].size # pk.Size
    THEN <<Return(Err("pack had a different size in the ResourcePacksInfo packet"))>>
    ELSE <<[op |-> "startFetch", uuid |-> pk.UUID, chunkSize |-> pk.DataChunkSize,
            chunkCount |-> pk.ChunkCount],
           Return(Nil)>>

\* buf.Len()
RECURSIVE BufLen(_)
BufLen(buf) == IF buf = <<>> THEN 0 ELSE Head(buf).len + BufLen(Tail(buf))

\* handleResourcePackChunkData without the test of the chunk index.
handleResourcePackChunkDataAnyIndex(c, pk) ==
    IF pk.UUID \notin DOMAIN packQueue[c].awaitingPacks
    THEN <<Return(Err("resource pack chunk data for resource pack that was not being downloaded"))>>
    ELSE LET downloadingPack == packQueue[c].awaitingPacks[pk.UUID]
             lastData == BufLen(downloadingPack.buf) + downloadingPack.chunkSize
                             >= downloadingPack.size
         IN  IF ~lastData /\ pk.Data.len # downloadingPack.chunkSize
             THEN <<Return(Err("resource pack chunk data had an unexpected length"))>>
             ELSE <<[op |-> "incExpectedIndex", uuid |-> pk.UUID],
                    [op |-> "sendFrag", uuid |-> pk.UUID, data |-> pk.Data],
                    Return(Nil)>>

handleResourcePackChunkData(c, pk) ==
    IF pk.UUID \notin DOMAIN packQueue[c].awaitingPacks
    THEN <<Return(Err("resource pack chunk data for resource pack that was not being downloaded"))>>
    ELSE LET downloadingPack == packQueue[c].awaitingPacks[pk.UUID]
             lastData == BufLen(downloadingPack.buf) + downloadingPack.chunkSize
                             >= downloadingPack.size
         IN  IF ~lastData /\ pk.Data.len # downloadingPack.chunkSize
             THEN <<Return(Err("resource pack chunk data had an unexpected length"))>>
             ELSE IF pk.ChunkIndex # downloadingPack.expectedIndex
             THEN <<Return(Err("resource pack chunk data had an unexpected chunk index"))>>
             ELSE <<[op |-> "incExpectedIndex", uuid |-> pk.UUID],
                    [op |-> "sendFrag", uuid |-> pk.UUID, data |-> pk.Data],
                    Return(Nil)>>

\* resource.Pack.ReadAt(b, off) with len(b) = packChunkSize: the number of bytes read,
\* and io.EOF if they are fewer than len(b).
ReadAt(pack, off) ==
    LET left == IF off >= pack.size THEN 0 ELSE pack.size - off
        n == IF left < packChunkSize THEN left ELSE packChunkSize
    IN  [n |-> n, eof |-> n < packChunkSize]

\* resourcePackQueue.AllDownloaded()
AllDownloaded(queue) == queue.currentPack >= Len(queue.packs)

\* handleResourcePackChunkRequest without the test of the chunk index.
handleResourcePackChunkRequestAnyIndex(c, pk) ==
    LET queue == packQueue[c]
        current == queue.packs[queue.currentPack]
        read == ReadAt(current, queue.currentOffset)
        response == ResourcePackChunkData(pk.UUID, pk.ChunkIndex, queue.currentOffset,
                                          [len |-> read.n, of |-> current])
        advanced == [queue EXCEPT !.currentOffset = @ + packChunkSize]
    IN  IF current.uuid # pk.UUID
        THEN <<Return(Err("resource pack chunk request had unexpected UUID"))>>
        ELSE <<SetPackQueue(advanced), WritePacket(response)>>
             \o (IF ~read.eof THEN <<>>
                 ELSE IF ~AllDownloaded(advanced) THEN nextResourcePackDownload(advanced)
                 ELSE <<Expect({IDResourcePackClientResponse})>>)
             \o <<Return(Nil)>>

handleResourcePackChunkRequest(c, pk) ==
    LET queue == packQueue[c]
        current == queue.packs[queue.currentPack]
        read == ReadAt(current, queue.currentOffset)
        response == ResourcePackChunkData(pk.UUID, pk.ChunkIndex, queue.currentOffset,
                                          [len |-> read.n, of |-> current])
        advanced == [queue EXCEPT !.currentOffset = @ + packChunkSize]
    IN  IF current.uuid # pk.UUID
        THEN <<Return(Err("resource pack chunk request had unexpected UUID"))>>
        ELSE IF queue.currentOffset # pk.ChunkIndex * packChunkSize
        THEN <<Return(Err("resource pack chunk request had unexpected chunk index"))>>
        ELSE <<SetPackQueue(advanced), WritePacket(response)>>
             \o (IF ~read.eof THEN <<>>
                 ELSE IF ~AllDownloaded(advanced) THEN nextResourcePackDownload(advanced)
                 ELSE <<Expect({IDResourcePackClientResponse})>>)
             \o <<Return(Nil)>>

\* handleIncoming: the switch on the packet's type.
Handle(c, pk) ==
    IF pk.id = IDLogin THEN handleLogin(c, pk)
    ELSE IF pk.id = IDClientToServerHandshake THEN handleClientToServerHandshake(c, pk)
    ELSE IF pk.id = IDResourcePackClientResponse
         THEN handleResourcePackClientResponse(c, pk)
    ELSE IF pk.id = IDServerToClientHandshake THEN handleServerToClientHandshake(c, pk)
    ELSE IF pk.id = IDPlayStatus THEN handlePlayStatus(c, pk)
    ELSE IF pk.id = IDResourcePacksInfo THEN handleResourcePacksInfo(c, pk)
    ELSE IF pk.id = IDResourcePackStack THEN handleResourcePackStack(c, pk)
    ELSE IF pk.id = IDResourcePackDataInfo THEN handleResourcePackDataInfo(c, pk)
    ELSE IF pk.id = IDResourcePackChunkData THEN handleResourcePackChunkData(c, pk)
    ELSE IF pk.id = IDResourcePackChunkRequest THEN handleResourcePackChunkRequest(c, pk)
    ELSE IF pk.id = IDDisconnect
         THEN CloseOps \o <<Return(Err(<<"Disconnected: ", pk.Message>>))>>
    ELSE <<Return(Nil)>>

\* handleIncoming after ReadPacket returned: the error is returned, a packet that is
\* not expected is ignored, an expected one is handled.
DispatchOps(c, v) ==
    IF ~IsPacket(v) THEN <<Return(v)>>
    ELSE IF ~Found(expectedIDs[c], v.id) THEN <<Return(Nil)>>
    ELSE Handle(c, v)

----------------------------------------------------------------------------
\* handleIncoming, run by the transport reader

\* handleIncoming without the test of conn.loggedIn.
EnqueueAlways(c, p) ==
    /\ At(c, p, "enqueue")
    /\ Len(packets[c]) < PacketsCap
    /\ packets' = [packets EXCEPT ![c] = Append(@, Head(pc[c][p]).data)]
    /\ pc' = [pc EXCEPT ![c][p] = <<ReadSelect(c), Op("dispatch")>> \o Rest(c, p)]
    /\ UNCHANGED <<ret, calls, close, readDeadline, sendMutex, bufferedSend, encoded,
                   connClosed, closeSent, cfgVars, logVars, timeVars, hsVars>>

\* conn.packets <- data, and the test of conn.loggedIn.
Enqueue(c, p) ==
    /\ At(c, p, "enqueue")
    /\ Len(packets[c]) < PacketsCap
    /\ packets' = [packets EXCEPT ![c] = Append(@, Head(pc[c][p]).data)]
    /\ IF ~loggedIn[c]
       THEN /\ pc' = [pc EXCEPT ![c][p] = <<ReadSelect(c), Op("dispatch")>> \o Rest(c, p)]
            /\ UNCHANGED ret
       ELSE /\ pc' = [pc EXCEPT ![c][p] = Rest(c, p)]
            /\ ret' = [ret EXCEPT ![c][p] = Nil]
    /\ UNCHANGED <<calls, close, readDeadline, sendMutex, bufferedSend, encoded,
                   connClosed, closeSent, cfgVars, logVars, timeVars, hsVars>>

\* ReadPacket, case data := <-conn.packets: a payload whose header or body cannot
\* be decoded is logged and the select is entered again.
ReadTake(c, p) ==
    /\ At(c, p, "readSelect")
    /\ packets[c] # <<>>
    /\ packets' = [packets EXCEPT ![c] = Tail(@)]
    /\ IF Head(packets[c]) = Undecodable
       THEN /\ pc' = [pc EXCEPT ![c][p] = <<ReadSelect(c)>> \o Rest(c, p)]
            /\ UNCHANGED ret
       ELSE /\ ret' = [ret EXCEPT ![c][p] = Head(packets[c])]
            /\ pc' = [pc EXCEPT ![c][p] = Rest(c, p)]
    /\ UNCHANGED <<calls, close, readDeadline, sendMutex, bufferedSend, encoded,
                   connClosed, closeSent, cfgVars, logVars, timeVars, hsVars>>

Dispatch(c, p) ==
    /\ At(c, p, "dispatch")
    /\ pc' = [pc EXCEPT ![c][p] = DispatchOps(c, ret[c][p]) \o Rest(c, p)]
    /\ handling' = [handling EXCEPT ![c] =
                        IF ~IsPacket(ret[c][p]) THEN NoPacket
                        ELSE IF Found(expectedIDs[c], ret[c][p].id) THEN ret[c][p]
                        ELSE Dropped(ret[c][p])]
    /\ UNCHANGED <<ret, calls, close, packets, readDeadline, sendMutex, bufferedSend,
                   encoded, connClosed, closeSent, cfgVars, logVars, timeVars,
                   loggedIn, expectedIDs,
                   encoderKey, decoderKey, encEnables, decEnables, salt, privateKey,
                   resourcePacks, packQueue, delivered, received>>

\* conn.expect(packetIDs...)
DoExpect(c, p) ==
    /\ At(c, p, "expect")
    /\ expectedIDs' = [expectedIDs EXCEPT ![c] = Head(pc[c][p]).ids]
    /\ pc' = [pc EXCEPT ![c][p] = Rest(c, p)]
    /\ UNCHANGED <<ret, calls, close, packets, readDeadline, sendMutex, bufferedSend,
                   encoded, connClosed, closeSent, cfgVars, logVars, timeVars, loggedIn,
                   encoderKey, decoderKey, encEnables, decEnables, salt, privateKey,
                   resourcePacks, packQueue, handling, delivered, received>>

\* conn.encoder.EnableEncryption(keyBytes)
DoEnableEncoder(c, p) ==
    /\ At(c, p, "enableEncoder")
    /\ encoderKey' = [encoderKey EXCEPT ![c] = Head(pc[c][p]).key]
    /\ encEnables' = [encEnables EXCEPT ![c] = @ + 1]
    /\ pc' = [pc EXCEPT ![c][p] = Rest(c, p)]
    /\ UNCHANGED <<ret, calls, close, packets, readDeadline, sendMutex, bufferedSend,
                   encoded, connClosed, closeSent, cfgVars, logVars, timeVars,
                   loggedIn, expectedIDs,
                   decoderKey, decEnables, salt, privateKey,
                   resourcePacks, packQueue, handling, delivered, received>>

\* conn.decoder.EnableEncryption(keyBytes)
DoEnableDecoder(c, p) ==
    /\ At(c, p, "enableDecoder")
    /\ decoderKey' = [decoderKey EXCEPT ![c] = Head(pc[c][p]).key]
    /\ decEnables' = [decEnables EXCEPT ![c] = @ + 1]
    /\ pc' = [pc EXCEPT ![c][p] = Rest(c, p)]
    /\ UNCHANGED <<ret, calls, close, packets, readDeadline, sendMutex, bufferedSend,
                   encoded, connClosed, closeSent, cfgVars, logVars, timeVars,
                   loggedIn, expectedIDs,
                   encoderKey, encEnables, salt, privateKey,
                   resourcePacks, packQueue, handling, delivered, received>>

\* conn.packQueue = &resourcePackQueue{...}
DoSetPackQueue(c, p) ==
    /\ At(c, p, "setPackQueue")
    /\ packQueue' = [packQueue EXCEPT ![c] = Head(pc[c][p]).queue]
    /\ pc' = [pc EXCEPT ![c][p] = Rest(c, p)]
    /\ UNCHANGED <<ret, calls, close, packets, readDeadline, sendMutex, bufferedSend,
                   encoded, connClosed, closeSent, cfgVars, logVars, timeVars,
                   loggedIn, expectedIDs,
                   encoderKey, decoderKey, encEnables, decEnables, salt, privateKey,
                   resourcePacks, handling, delivered, received>>

\* conn.loggedIn = true
DoSetLoggedIn(c, p) ==
    /\ At(c, p, "setLoggedIn")
    /\ loggedIn' = [loggedIn EXCEPT ![c] = TRUE]
    /\ pc' = [pc EXCEPT ![c][p] = Rest(c, p)]
    /\ UNCHANGED <<ret, calls, close, packets, readDeadline, sendMutex, bufferedSend,
                   encoded, connClosed, closeSent, cfgVars, logVars, timeVars, expectedIDs,
                   encoderKey, decoderKey, encEnables, decEnables, salt, privateKey,
                   resourcePacks, packQueue, handling, delivered, received>>

\* A resource pack: what UUID(), Version(), Len() and HasBehaviours() return.
Pack(uuid, size, behaviours) ==
    [uuid |-> uuid, version |-> "1.0.0", size |-> size, behaviours |-> behaviours]

NoPack == [uuid |-> "none"]

\* Bytes that are not cut from the content of a pack.
Junk == [uuid |-> "junk"]

\* resource.FromBytes(buf.Bytes()): the bytes are the whole content of one pack, or
\* the error.
FromBytes(buf) ==
    IF /\ buf # <<>>
       /\ buf[1].of # Junk
       /\ \A i \in 1..Len(buf) : buf[i].of = buf[1].of
       /\ BufLen(buf) = buf[1].of.size
    THEN buf[1].of
    ELSE NoPack

\* handleResourcePackDataInfo: the pack moves from downloadingPacks to awaitingPacks
\* and the goroutine that downloads it starts.
DoStartFetch(c, p) ==
    /\ At(c, p, "startFetch")
    /\ LET o == Head(pc[c][p])
           q == packQueue[c]
           downloadingPack == [q.downloadingPacks[o.uuid] EXCEPT !.chunkSize = o.chunkSize]
       IN  /\ packQueue' = [packQueue EXCEPT ![c] =
                  [q EXCEPT !.downloadingPacks =
                                [u \in DOMAIN q.downloadingPacks \ {o.uuid} |->
                                    q.downloadingPacks[u]],
                            !.awaitingPacks =
                                [u \in DOMAIN q.awaitingPacks \cup {o.uuid} |->
                                    IF u = o.uuid THEN downloadingPack
                                    ELSE q.awaitingPacks[u]]]]
           /\ pc' = [pc EXCEPT ![c][p] = Rest(c, p),
                               ![c][Fetcher(o.uuid)] = FetchOps(o.uuid, 0, o.chunkCount)]
    /\ UNCHANGED <<ret, calls, close, packets, readDeadline, sendMutex, bufferedSend,
                   encoded, connClosed, closeSent, cfgVars, logVars, timeVars,
                   loggedIn, expectedIDs, encoderKey, decoderKey, encEnables, decEnables,
                   salt, privateKey, resourcePacks, handling, delivered, received>>

\* downloadingPack.expectedIndex++
DoIncExpectedIndex(c, p) ==
    /\ At(c, p, "incExpectedIndex")
    /\ packQueue' = [packQueue EXCEPT
                        ![c].awaitingPacks[Head(pc[c][p]).uuid].expectedIndex = @ + 1]
    /\ pc' = [pc EXCEPT ![c][p] = Rest(c, p)]
    /\ UNCHANGED <<ret, calls, close, packets, readDeadline, sendMutex, bufferedSend,
                   encoded, connClosed, closeSent, cfgVars, logVars, timeVars,
                   loggedIn, expectedIDs, encoderKey, decoderKey, encEnables, decEnables,
                   salt, privateKey, resourcePacks, handling, delivered, received>>

\* downloadingPack.newFrag <- pk.Data: the channel has no buffer, the send waits for
\* the receive of the goroutine that downloads the pack.
DoSendFrag(c, p) ==
    /\ At(c, p, "sendFrag")
    /\ LET o == Head(pc[c][p])
       IN  /\ At(c, Fetcher(o.uuid), "recvFrag")
           /\ pc' = [pc EXCEPT ![c][p] = Rest(c, p),
                               ![c][Fetcher(o.uuid)] =
                                   <<[op |-> "bufWrite", uuid |-> o.uuid, data |-> o.data]>>
                                   \o Rest(c, Fetcher(o.uuid))]
    /\ UNCHANGED <<ret, calls, close, packets, readDeadline, sendMutex, bufferedSend,
                   encoded, connClosed, closeSent, cfgVars, logVars, timeVars, hsVars>>

\* downloadingPack.buf.Write(<-downloadingPack.newFrag)
DoBufWrite(c, p) ==
    /\ At(c, p, "bufWrite")
    /\ packQueue' = [packQueue EXCEPT
                        ![c].awaitingPacks[Head(pc[c][p]).uuid].buf =
                            Append(@, Head(pc[c][p]).data)]
    /\ pc' = [pc EXCEPT ![c][p] = Rest(c, p)]
    /\ UNCHANGED <<ret, calls, close, packets, readDeadline, sendMutex, bufferedSend,
                   encoded, connClosed, closeSent, cfgVars, logVars, timeVars,
                   loggedIn, expectedIDs, encoderKey, decoderKey, encEnables, decEnables,
                   salt, privateKey, resourcePacks, handling, delivered, received>>

\* The goroutine after its loop: the checks of the length and of the content, and
\* what follows for a pack that passes them, statement by statement; the fields
\* packAmount and resourcePacks are read and written without a lock.
DoFetchDone(c, p) ==
    /\ At(c, p, "fetchDone")
    /\ LET downloadingPack == packQueue[c].awaitingPacks[Head(pc[c][p]).uuid]
           pack == FromBytes(downloadingPack.buf)
       IN  pc' = [pc EXCEPT ![c][p] =
                     IF BufLen(downloadingPack.buf) # downloadingPack.size THEN <<>>
                     ELSE IF pack = NoPack THEN <<>>
                     ELSE <<Op("loadPackAmount"), [op |-> "loadPacks", pack |-> pack],
                            Op("checkPackAmount")>>]
    /\ UNCHANGED <<ret, calls, close, packets, readDeadline, sendMutex, bufferedSend,
                   encoded, connClosed, closeSent, cfgVars, logVars, timeVars, hsVars>>

\* conn.packQueue.packAmount--: the read.
DoLoadPackAmount(c, p) ==
    /\ At(c, p, "loadPackAmount")
    /\ pc' = [pc EXCEPT ![c][p] =
                 <<[op |-> "storePackAmount", amount |-> packQueue[c].packAmount - 1]>>
                 \o Rest(c, p)]
    /\ UNCHANGED <<ret, calls, close, packets, readDeadline, sendMutex, bufferedSend,
                   encoded, connClosed, closeSent, cfgVars, logVars, timeVars, hsVars>>

\* conn.packQueue.packAmount--: the write.
DoStorePackAmount(c, p) ==
    /\ At(c, p, "storePackAmount")
    /\ packQueue' = [packQueue EXCEPT ![c].packAmount = Head(pc[c][p]).amount]
    /\ pc' = [pc EXCEPT ![c][p] = Rest(c, p)]
    /\ UNCHANGED <<ret, calls, close, packets, readDeadline, sendMutex, bufferedSend,
                   encoded, connClosed, closeSent, cfgVars, logVars, timeVars,
                   loggedIn, expectedIDs, encoderKey, decoderKey, encEnables, decEnables,
                   salt, privateKey, resourcePacks, handling, delivered, received>>

\* conn.resourcePacks = append(conn.resourcePacks, pack): the read.
DoLoadPacks(c, p) ==
    /\ At(c, p, "loadPacks")
    /\ pc' = [pc EXCEPT ![c][p] =
                 <<[op |-> "storePacks",
                    packs |-> Append(resourcePacks[c], Head(pc[c][p]).pack)]>>
                 \o Rest(c, p)]
    /\ UNCHANGED <<ret, calls, close, packets, readDeadline, sendMutex, bufferedSend,
                   encoded, connClosed, closeSent, cfgVars, logVars, timeVars, hsVars>>

\* conn.resourcePacks = append(conn.resourcePacks, pack): the write.
DoStorePacks(c, p) ==
    /\ At(c, p, "storePacks")
    /\ resourcePacks' = [resourcePacks EXCEPT ![c] = Head(pc[c][p]).packs]
    /\ pc' = [pc EXCEPT ![c][p] = Rest(c, p)]
    /\ UNCHANGED <<ret, calls, close, packets, readDeadline, sendMutex, bufferedSend,
                   encoded, connClosed, closeSent, cfgVars, logVars, timeVars,
                   loggedIn, expectedIDs, encoderKey, decoderKey, encEnables, decEnables,
                   salt, privateKey, packQueue, handling, delivered, received>>

\* if conn.packQueue.packAmount == 0 { expect; WritePacket }
DoCheckPackAmount(c, p) ==
    /\ At(c, p, "checkPackAmount")
    /\ pc' = [pc EXCEPT ![c][p] =
                 IF packQueue[c].packAmount = 0
                 THEN <<Expect({IDResourcePackStack}),
                        WritePacket(ResourcePackClientResponse(
                                        PackResponseAllPacksDownloaded, <<>>))>>
                 ELSE <<>>]
    /\ UNCHANGED <<ret, calls, close, packets, readDeadline, sendMutex, bufferedSend,
                   encoded, connClosed, closeSent, cfgVars, logVars, timeVars, hsVars>>

\* conn.connected <- true: the channel has no buffer, the send waits for Dial's receive.
DoSendConnected(c, p) ==
    /\ At(c, p, "sendConnected")
    /\ At(c, Dialer, "recvConnected")
    /\ pc' = [pc EXCEPT ![c][p] = Rest(c, p), ![c][Dialer] = Rest(c, Dialer)]
    /\ UNCHANGED <<ret, calls, close, packets, readDeadline, sendMutex, bufferedSend,
                   encoded, connClosed, closeSent, cfgVars, logVars, timeVars, hsVars>>

\* return err
DoReturn(c, p) ==
    /\ At(c, p, "return")
    /\ ret' = [ret EXCEPT ![c][p] = Head(pc[c][p]).err]
    /\ pc' = [pc EXCEPT ![c][p] = Rest(c, p)]
    /\ UNCHANGED <<calls, close, packets, readDeadline, sendMutex, bufferedSend,
                   encoded, connClosed, closeSent, cfgVars, logVars, timeVars, hsVars>>

\* return f(...)
DoReturnLast(c, p) ==
    /\ At(c, p, "returnLast")
    /\ pc' = [pc EXCEPT ![c][p] = Rest(c, p)]
    /\ UNCHANGED <<ret, calls, close, packets, readDeadline, sendMutex, bufferedSend,
                   encoded, connClosed, closeSent, cfgVars, logVars, timeVars, hsVars>>

----------------------------------------------------------------------------
\* The transport reader: it passes every payload of a decoded batch to
\* handleIncoming and, when handleIncoming returns an error, logs it, closes the
\* connection and ends.

ReaderStopOps == CloseOps \o <<Op("stopped")>>

Handled(c, p) ==
    /\ At(c, p, "handled")
    /\ pc' = [pc EXCEPT ![c][p] = IF ret[c][p] # Nil THEN ReaderStopOps ELSE Rest(c, p)]
    /\ handling' = [handling EXCEPT ![c] = NoPacket]
    /\ UNCHANGED <<ret, calls, close, packets, readDeadline, sendMutex, bufferedSend,
                   encoded, connClosed, closeSent, cfgVars, logVars, timeVars,
                   loggedIn, expectedIDs,
                   encoderKey, decoderKey, encEnables, decEnables, salt, privateKey,
                   resourcePacks, packQueue, delivered, received>>

----------------------------------------------------------------------------
\* The facade: user tasks calling Close, ReadPacket and WritePacket, and the ticker.

Lives(c) == c \in live

Next ==
    \/ \E c \in Endpoints, p \in UserTasks : Lives(c) /\ FlushLock(c, p)
    \/ \E c \in Endpoints, p \in UserTasks : Lives(c) /\ FlushEncode(c, p)
    \/ \E c \in Endpoints, p \in UserTasks : Lives(c) /\ Write(c, p)
    \/ \E c \in Endpoints, p \in UserTasks : Lives(c) /\ CloseCheck(c, p)
    \/ \E c \in Endpoints, p \in UserTasks : Lives(c) /\ CloseSend(c, p)
    \/ \E c \in Endpoints, p \in UserTasks : Lives(c) /\ ConnClose(c, p)
    \/ \E c \in Endpoints, p \in UserTasks : Lives(c) /\ CloseResend(c, p)
    \/ \E c \in Endpoints, p \in UserTasks : Lives(c) /\ ReadClose(c, p)
    \/ \E c \in Endpoints : Lives(c) /\ TickerTick(c)
    \/ \E c \in Endpoints : Lives(c) /\ TickerFlushed(c)
    \/ \E c \in Endpoints : Lives(c) /\ TickerClose(c)
    \/ \E c \in Endpoints, p \in Closers : Lives(c) /\ CallClose(c, p)
    \/ \E c \in Endpoints, p \in Readers : Lives(c) /\ CallReadPacket(c, p)
    \/ \E c \in Endpoints, p \in Writers : Lives(c) /\ CallWritePacket(c, p)

Spec == Init /\ [][Next]_vars

\* The send side of one connection: user tasks calling Write, a user task calling
\* Flush and Close, and the ticker, over a transport that may fail; the calls of
\* encoder.Encode are recorded.
SendInit ==
    NewConnTraced({"server"}, {"server"}, {"server"}, <<>>, FixedSalt, FixedKeys,
                  {IDServerToClientHandshake}, DialWait)

SendNext ==
    \/ \E c \in Endpoints, p \in Senders : Lives(c) /\ CallWrite(c, p)
    \/ \E c \in Endpoints : Lives(c) /\ CallFlush(c, Flusher)
    \/ \E c \in Endpoints : Lives(c) /\ CallClose(c, Flusher)
    \/ \E c \in Endpoints, p \in SendTasks : Lives(c) /\ Write(c, p)
    \/ \E c \in Endpoints, p \in SendTasks : Lives(c) /\ FlushLock(c, p)
    \/ \E c \in Endpoints, p \in SendTasks : Lives(c) /\ FlushEncode(c, p)
    \/ \E c \in Endpoints, p \in SendTasks : Lives(c) /\ CloseCheck(c, p)
    \/ \E c \in Endpoints, p \in SendTasks : Lives(c) /\ CloseSend(c, p)
    \/ \E c \in Endpoints, p \in SendTasks : Lives(c) /\ ConnClose(c, p)
    \/ \E c \in Endpoints, p \in SendTasks : Lives(c) /\ CloseResend(c, p)
    \/ \E c \in Endpoints : Lives(c) /\ TickerTick(c)
    \/ \E c \in Endpoints : Lives(c) /\ TickerFlushed(c)
    \/ \E c \in Endpoints : Lives(c) /\ TickerClose(c)

SendSpec == SendInit /\ [][SendNext]_vars

\* The read deadline of one connection: a user task calling SetReadDeadline and
\* SetDeadline, user tasks calling ReadPacket, the clock and the timers.
DeadlineNext ==
    \/ \E c \in Endpoints, t \in Times : Lives(c) /\ CallSetReadDeadline(c, Setter, t)
    \/ \E c \in Endpoints, t \in Times : Lives(c) /\ CallSetDeadline(c, Setter, t)
    \/ \E c \in Endpoints, p \in DeadlineTasks : Lives(c) /\ DoSetReadDeadline(c, p)
    \/ \E c \in Endpoints, p \in DeadlineTasks : Lives(c) /\ DoReturnLast(c, p)
    \/ \E c \in Endpoints, p \in Readers : Lives(c) /\ CallReadPacket(c, p)
    \/ \E c \in Endpoints, p \in DeadlineTasks : Lives(c) /\ ReadTimeout(c, p)
    \/ \E c \in Endpoints, k \in 1..MaxSets : Lives(c) /\ TimerFire(c, k)
    \/ ClockTick

DeadlineSpec == Init /\ [][DeadlineNext]_vars

----------------------------------------------------------------------------
\* The handshake of one connection, server or client, with an arbitrary peer: the
\* transport reader and the ticker, over a transport that may fail.

\* The public key the peer presents, and the token a server with the fixed salt sends.
PeerPublicKey(c) == PublicKey(IF c = "server" THEN ClientPrivateKey ELSE ServerPrivateKey)

ServerJWT(slt, d) ==
    NewJWT("ES384", MarshalPublicKey(PublicKey(d)), [salt |-> StdEncodeToString(slt)], d)

LoginRequests ==
    {"ok", "verifyError", "unauthenticated", "decodeError", "invalidIdentity",
     "invalidClientData"}

PlayStatuses ==
    {PlayStatusLoginSuccess, PlayStatusLoginFailedClient, PlayStatusLoginFailedServer,
     PlayStatusPlayerSpawn, PlayStatusLoginFailedInvalidTenant,
     PlayStatusLoginFailedVanillaEdu, PlayStatusLoginFailedEduVanilla,
     PlayStatusLoginFailedServerFull, "other"}

PackResponses ==
    {PackResponseRefused, PackResponseSendPacks, PackResponseAllPacksDownloaded,
     PackResponseCompleted, "other"}

UnownedPack == [UUID |-> "u9", Version |-> "1.0.0"]

\* The payloads a peer may send.
Inbound(c) ==
    {Login(CurrentProtocol - 1, "ok", PeerPublicKey(c)),
     Login(CurrentProtocol + 1, "ok", PeerPublicKey(c))}
    \cup {Login(CurrentProtocol, r, PeerPublicKey(c)) : r \in LoginRequests}
    \cup {ClientToServerHandshake}
    \cup {ResourcePackClientResponse(r, <<>>) : r \in PackResponses}
    \cup {ResourcePackClientResponse(PackResponseSendPacks,
                                     <<<<UnownedPack.UUID, "_", UnownedPack.Version>>>>)}
    \cup {ServerToClientHandshake(ServerJWT(FixedSalt, ServerPrivateKey)),
          ServerToClientHandshake([ServerJWT(FixedSalt, ServerPrivateKey)
                                      EXCEPT !.alg = "none"]),
          ServerToClientHandshake([ServerJWT(FixedSalt, ServerPrivateKey)
                                      EXCEPT !.signedBy = PublicKey(ClientPrivateKey)]),
          ServerToClientHandshake([ServerJWT(FixedSalt, ServerPrivateKey)
                                      EXCEPT !.payload = [iss |-> "server"]]),
          ServerToClientHandshake([ServerJWT(FixedSalt, ServerPrivateKey)
                                      EXCEPT !.payload = [salt |-> <<1, Pad, 2>>]])}
    \cup {PlayStatus(st) : st \in PlayStatuses}
    \cup {ResourcePacksInfo(<<>>, <<>>),
          ResourcePackStack(<<>>, <<>>),
          ResourcePackStack(<<UnownedPack>>, <<>>),
          ResourcePackStack(<<>>, <<UnownedPack>>),
          Disconnect("kicked"),
          [id |-> IDText], [id |-> IDRequestChunkRadius], [id |-> IDStartGame],
          Undecodable}

\* The transport reader passes the next payload of the peer to handleIncoming. Over a
\* transport that never fails the peer sends one payload more.
Deliver(c, data) ==
    /\ pc[c][TransportReader] = <<>>
    /\ delivered[c] < MaxInbound + (IF c \in faulty THEN 0 ELSE 1)
    /\ delivered' = [delivered EXCEPT ![c] = @ + 1]
    /\ pc' = [pc EXCEPT ![c][TransportReader] = HandleIncomingOps(data)]
    /\ UNCHANGED <<ret, calls, close, packets, readDeadline, sendMutex, bufferedSend,
                   encoded, connClosed, closeSent, cfgVars, logVars, timeVars,
                   loggedIn, expectedIDs,
                   encoderKey, decoderKey, encEnables, decEnables, salt, privateKey,
                   resourcePacks, packQueue, handling, received>>

HandshakeInit ==
    \E c \in Endpoints, ids \in DialExpectedIDs :
        NewConn({c}, {c}, <<>>, FixedSalt, FixedKeys, ids, DialWait)

HandshakeNext ==
    \/ \E c \in Endpoints : \E data \in Inbound(c) : Lives(c) /\ Deliver(c, data)
    \/ \E c \in Endpoints, p \in HandshakeTasks : Lives(c) /\ Enqueue(c, p)
    \/ \E c \in Endpoints, p \in HandshakeTasks : Lives(c) /\ ReadTake(c, p)
    \/ \E c \in Endpoints, p \in HandshakeTasks : Lives(c) /\ ReadClose(c, p)
    \/ \E c \in Endpoints, p \in HandshakeTasks : Lives(c) /\ Dispatch(c, p)
    \/ \E c \in Endpoints, p \in HandshakeTasks : Lives(c) /\ DoExpect(c, p)
    \/ \E c \in Endpoints, p \in HandshakeTasks : Lives(c) /\ DoEnableEncoder(c, p)
    \/ \E c \in Endpoints, p \in HandshakeTasks : Lives(c) /\ DoEnableDecoder(c, p)
    \/ \E c \in Endpoints, p \in HandshakeTasks : Lives(c) /\ DoSetPackQueue(c, p)
    \/ \E c \in Endpoints, p \in HandshakeTasks : Lives(c) /\ DoSetLoggedIn(c, p)
    \/ \E c \in Endpoints, p \in HandshakeTasks : Lives(c) /\ DoSendConnected(c, p)
    \/ \E c \in Endpoints, p \in HandshakeTasks : Lives(c) /\ DoReturn(c, p)
    \/ \E c \in Endpoints, p \in HandshakeTasks : Lives(c) /\ DoReturnLast(c, p)
    \/ \E c \in Endpoints, p \in HandshakeTasks : Lives(c) /\ Handled(c, p)
    \/ \E c \in Endpoints, p \in HandshakeTasks : Lives(c) /\ FlushLock(c, p)
    \/ \E c \in Endpoints, p \in HandshakeTasks : Lives(c) /\ FlushEncode(c, p)
    \/ \E c \in Endpoints, p \in HandshakeTasks : Lives(c) /\ Write(c, p)
    \/ \E c \in Endpoints, p \in HandshakeTasks : Lives(c) /\ CloseCheck(c, p)
    \/ \E c \in Endpoints, p \in HandshakeTasks : Lives(c) /\ CloseSend(c, p)
    \/ \E c \in Endpoints, p \in HandshakeTasks : Lives(c) /\ ConnClose(c, p)
    \/ \E c \in Endpoints, p \in HandshakeTasks : Lives(c) /\ CloseResend(c, p)
    \/ \E c \in Endpoints : Lives(c) /\ TickerTick(c)
    \/ \E c \in Endpoints : Lives(c) /\ TickerFlushed(c)
    \/ \E c \in Endpoints : Lives(c) /\ TickerClose(c)

HandshakeSpec == HandshakeInit /\ [][HandshakeNext]_vars

\* The same connection over a transport that never fails.
ReliableInit ==
    \E c \in Endpoints, ids \in DialExpectedIDs :
        NewConn({c}, {}, <<>>, FixedSalt, FixedKeys, ids, DialWait)

ReliableSpec == ReliableInit /\ [][HandshakeNext]_vars

----------------------------------------------------------------------------
\* The transfer of packs on one connection, server or client, over a transport that
\* never fails: the peer follows the handshake up to the ResourcePacksInfo and is
\* arbitrary from there.  The flush ticker is left out of both specifications: it
\* moves payloads from bufferedSend to the transport, which Written does not tell
\* apart, and reads no field of the transfer.

\* The packs the server owns: one of two chunks, the last one short, and one of
\* exactly one chunk.
PackA == Pack("a", packChunkSize + 1, FALSE)
PackB == Pack("b", packChunkSize, TRUE)

PackID(pack) == <<pack.uuid, "_", pack.version>>

\* The n-th payload (from 0) a server may send to the client.
ServerScript(n) ==
    IF n = 0 THEN {PlayStatus(PlayStatusLoginSuccess)}
    ELSE IF n = 1
    THEN {ResourcePacksInfo(PackEntries(<<PackA, PackB>>, FALSE, TRUE),
                            PackEntries(<<PackA, PackB>>, TRUE, TRUE)),
          ResourcePacksInfo(<<>>, PackEntries(<<PackB>>, TRUE, TRUE))}
    ELSE {ResourcePackDataInfo(PackA), ResourcePackDataInfo(PackB),
          [ResourcePackDataInfo(PackA) EXCEPT !.Size = PackA.size + 1],
          ResourcePackChunkData("a", 0, 0, [len |-> packChunkSize, of |-> PackA]),
          ResourcePackChunkData("a", 1, packChunkSize, [len |-> 1, of |-> PackA]),
          ResourcePackChunkData("a", 0, 0, [len |-> 1, of |-> PackA]),
          ResourcePackChunkData("b", 0, 0, [len |-> packChunkSize, of |-> PackB]),
          ResourcePackChunkData("b", 0, 0, [len |-> packChunkSize, of |-> Junk]),
          ResourcePackChunkData("b", 1, packChunkSize, [len |-> 1, of |-> PackB]),
          ResourcePackStack(PackEntries(<<PackA, PackB>>, FALSE, FALSE),
                            PackEntries(<<PackA, PackB>>, TRUE, FALSE)),
          ResourcePackStack(<<>>, PackEntries(<<PackB>>, TRUE, FALSE))}

\* The n-th payload (from 0) a client may send to the server.
ClientScript(n) ==
    IF n = 0 THEN {Login(CurrentProtocol, "ok", PeerPublicKey("server"))}
    ELSE IF n = 1 THEN {ClientToServerHandshake}
    ELSE {ResourcePackClientResponse(r, <<>>) : r \in PackResponses}
         \cup {ResourcePackClientResponse(PackResponseSendPacks, ids) :
                   ids \in {<<PackID(PackA), PackID(PackB)>>, <<PackID(PackB)>>,
                            <<PackID(PackA), <<UnownedPack.UUID, "_", UnownedPack.Version>>>>}}
         \cup {ResourcePackChunkRequest(u, i) : u \in PackUUIDs, i \in 0..2}

Script(c, n) == IF c = "client" THEN ServerScript(n) ELSE ClientScript(n)

MaxScript(c) == IF c = "client" THEN MaxServerScript ELSE MaxClientScript

\* The transport reader passes the next payload of the peer to handleIncoming.
DeliverScript(c, data) ==
    /\ pc[c][TransportReader] = <<>>
    /\ delivered[c] < MaxScript(c)
    /\ data \in Script(c, delivered[c])
    /\ delivered' = [delivered EXCEPT ![c] = @ + 1]
    /\ pc' = [pc EXCEPT ![c][TransportReader] = HandleIncomingOps(data)]
    /\ UNCHANGED <<ret, calls, close, packets, readDeadline, sendMutex, bufferedSend,
                   encoded, connClosed, closeSent, cfgVars, logVars, timeVars,
                   loggedIn, expectedIDs, encoderKey, decoderKey, encEnables, decEnables,
                   salt, privateKey, resourcePacks, packQueue, handling, received>>

Payloads == UNION {Script(c, n) : c \in Endpoints, n \in 0..2}

\* The client downloads, the server uploads.
DownloadInit ==
    NewConn({"client"}, {}, <<>>, FixedSalt, FixedKeys, {IDPlayStatus}, DialWait)

UploadInit ==
    NewConn({"server"}, {}, <<PackA, PackB>>, FixedSalt, FixedKeys, {IDPlayStatus}, DialWait)

DownloadNext ==
    \/ \E c \in Endpoints, data \in Payloads : Lives(c) /\ DeliverScript(c, data)
    \/ \E c \in Endpoints, p \in DownloadTasks : Lives(c) /\ Enqueue(c, p)
    \/ \E c \in Endpoints, p \in DownloadTasks : Lives(c) /\ ReadTake(c, p)
    \/ \E c \in Endpoints, p \in DownloadTasks : Lives(c) /\ Dispatch(c, p)
    \/ \E c \in Endpoints, p \in DownloadTasks : Lives(c) /\ DoExpect(c, p)
    \/ \E c \in Endpoints, p \in DownloadTasks : Lives(c) /\ DoSetPackQueue(c, p)
    \/ \E c \in Endpoints, p \in DownloadTasks : Lives(c) /\ DoSetLoggedIn(c, p)
    \/ \E c \in Endpoints, p \in DownloadTasks : Lives(c) /\ DoSendConnected(c, p)
    \/ \E c \in Endpoints, p \in DownloadTasks : Lives(c) /\ DoStartFetch(c, p)
    \/ \E c \in Endpoints, p \in DownloadTasks : Lives(c) /\ DoIncExpectedIndex(c, p)
    \/ \E c \in Endpoints, p \in DownloadTasks : Lives(c) /\ DoSendFrag(c, p)
    \/ \E c \in Endpoints, p \in DownloadTasks : Lives(c) /\ DoBufWrite(c, p)
    \/ \E c \in Endpoints, p \in DownloadTasks : Lives(c) /\ DoFetchDone(c, p)
    \/ \E c \in Endpoints, p \in DownloadTasks : Lives(c) /\ DoLoadPackAmount(c, p)
    \/ \E c \in Endpoints, p \in DownloadTasks : Lives(c) /\ DoStorePackAmount(c, p)
    \/ \E c \in Endpoints, p \in DownloadTasks : Lives(c) /\ DoLoadPacks(c, p)
    \/ \E c \in Endpoints, p \in DownloadTasks : Lives(c) /\ DoStorePacks(c, p)
    \/ \E c \in Endpoints, p \in DownloadTasks : Lives(c) /\ DoCheckPackAmount(c, p)
    \/ \E c \in Endpoints, p \in DownloadTasks : Lives(c) /\ DoReturn(c, p)
    \/ \E c \in Endpoints, p \in DownloadTasks : Lives(c) /\ DoReturnLast(c, p)
    \/ \E c \in Endpoints, p \in DownloadTasks : Lives(c) /\ Handled(c, p)
    \/ \E c \in Endpoints, p \in DownloadTasks : Lives(c) /\ FlushLock(c, p)
    \/ \E c \in Endpoints, p \in DownloadTasks : Lives(c) /\ FlushEncode(c, p)
    \/ \E c \in Endpoints, p \in DownloadTasks : Lives(c) /\ Write(c, p)
    \/ \E c \in Endpoints, p \in DownloadTasks : Lives(c) /\ CloseCheck(c, p)
    \/ \E c \in Endpoints, p \in DownloadTasks : Lives(c) /\ CloseSend(c, p)
    \/ \E c \in Endpoints, p \in DownloadTasks : Lives(c) /\ ConnClose(c, p)

UploadNext ==
    \/ \E c \in Endpoints, data \in Payloads : Lives(c) /\ DeliverScript(c, data)
    \/ \E c \in Endpoints, p \in UploadTasks : Lives(c) /\ Enqueue(c, p)
    \/ \E c \in Endpoints, p \in UploadTasks : Lives(c) /\ ReadTake(c, p)
    \/ \E c \in Endpoints, p \in UploadTasks : Lives(c) /\ Dispatch(c, p)
    \/ \E c \in Endpoints, p \in UploadTasks : Lives(c) /\ DoExpect(c, p)
    \/ \E c \in Endpoints, p \in UploadTasks : Lives(c) /\ DoEnableEncoder(c, p)
    \/ \E c \in Endpoints, p \in UploadTasks : Lives(c) /\ DoEnableDecoder(c, p)
    \/ \E c \in Endpoints, p \in UploadTasks : Lives(c) /\ DoSetPackQueue(c, p)
    \/ \E c \in Endpoints, p \in UploadTasks : Lives(c) /\ DoSetLoggedIn(c, p)
    \/ \E c \in Endpoints, p \in UploadTasks : Lives(c) /\ DoReturn(c, p)
    \/ \E c \in Endpoints, p \in UploadTasks : Lives(c) /\ DoReturnLast(c, p)
    \/ \E c \in Endpoints, p \in UploadTasks : Lives(c) /\ Handled(c, p)
    \/ \E c \in Endpoints, p \in UploadTasks : Lives(c) /\ FlushLock(c, p)
    \/ \E c \in Endpoints, p \in UploadTasks : Lives(c) /\ FlushEncode(c, p)
    \/ \E c \in Endpoints, p \in UploadTasks : Lives(c) /\ Write(c, p)
    \/ \E c \in Endpoints, p \in UploadTasks : Lives(c) /\ CloseCheck(c, p)
    \/ \E c \in Endpoints, p \in UploadTasks : Lives(c) /\ CloseSend(c, p)
    \/ \E c \in Endpoints, p \in UploadTasks : Lives(c) /\ ConnClose(c, p)
    \/ \E c \in Endpoints, p \in UploadTasks : Lives(c) /\ ReadClose(c, p)
    \/ \E c \in Endpoints, p \in UploadTasks : Lives(c) /\ CloseResend(c, p)

DownloadSpec == DownloadInit /\ [][DownloadNext]_vars

UploadSpec == UploadInit /\ [][UploadNext]_vars

\* A server without packs while a user task calls ReadPacket.
InboundInit ==
    NewConn({"server"}, {}, <<>>, FixedSalt, FixedKeys, {IDPlayStatus}, DialWait)

InboundNext ==
    \/ \E c \in Endpoints, data \in Payloads : Lives(c) /\ DeliverScript(c, data)
    \/ \E c \in Endpoints : Lives(c) /\ CallReadPacket(c, UserReader)
    \/ \E c \in Endpoints, p \in InboundTasks : Lives(c) /\ Enqueue(c, p)
    \/ \E c \in Endpoints, p \in InboundTasks : Lives(c) /\ ReadTake(c, p)
    \/ \E c \in Endpoints, p \in InboundTasks : Lives(c) /\ ReadClose(c, p)
    \/ \E c \in Endpoints, p \in InboundTasks : Lives(c) /\ CloseResend(c, p)
    \/ \E c \in Endpoints, p \in InboundTasks : Lives(c) /\ Dispatch(c, p)
    \/ \E c \in Endpoints, p \in InboundTasks : Lives(c) /\ DoExpect(c, p)
    \/ \E c \in Endpoints, p \in InboundTasks : Lives(c) /\ DoEnableEncoder(c, p)
    \/ \E c \in Endpoints, p \in InboundTasks : Lives(c) /\ DoEnableDecoder(c, p)
    \/ \E c \in Endpoints, p \in InboundTasks : Lives(c) /\ DoSetPackQueue(c, p)
    \/ \E c \in Endpoints, p \in InboundTasks : Lives(c) /\ DoSetLoggedIn(c, p)
    \/ \E c \in Endpoints, p \in InboundTasks : Lives(c) /\ DoReturn(c, p)
    \/ \E c \in Endpoints, p \in InboundTasks : Lives(c) /\ DoReturnLast(c, p)
    \/ \E c \in Endpoints, p \in InboundTasks : Lives(c) /\ Handled(c, p)
    \/ \E c \in Endpoints, p \in InboundTasks : Lives(c) /\ FlushLock(c, p)
    \/ \E c \in Endpoints, p \in InboundTasks : Lives(c) /\ FlushEncode(c, p)
    \/ \E c \in Endpoints, p \in InboundTasks : Lives(c) /\ Write(c, p)
    \/ \E c \in Endpoints, p \in InboundTasks : Lives(c) /\ CloseCheck(c, p)
    \/ \E c \in Endpoints, p \in InboundTasks : Lives(c) /\ CloseSend(c, p)
    \/ \E c \in Endpoints, p \in InboundTasks : Lives(c) /\ ConnClose(c, p)

InboundSpec == InboundInit /\ [][InboundNext]_vars

----------------------------------------------------------------------------
\* A client and a server of this code, joined by a transport that never fails: what
\* one side encodes the transport reader of the other decodes, batch by batch.

Peer(c) == IF c = "server" THEN "client" ELSE "server"

\* Dial writes the Login and waits for the connected signal.
DialLogin(protocol, d) ==
    <<WritePacket(Login(protocol, "ok", PublicKey(d)))>> \o DialWait

RECURSIVE BatchOps(_)
BatchOps(batch) ==
    IF batch = <<>> THEN <<>>
    ELSE HandleIncomingOps(Head(batch)) \o BatchOps(Tail(batch))

\* The transport reader decodes the next batch of the peer and passes its payloads to
\* handleIncoming one by one; a batch encoded under another key than the decoder's
\* cannot be decoded, and the reader closes the connection and ends.
Receive(c) ==
    /\ pc[c][TransportReader] = <<>>
    /\ connClosed[c] = 0
    /\ received[c] < Len(encoded[Peer(c)])
    /\ received' = [received EXCEPT ![c] = @ + 1]
    /\ LET b == encoded[Peer(c)][received[c] + 1]
       IN  pc' = [pc EXCEPT ![c][TransportReader] =
                     IF b.key = decoderKey[c] THEN BatchOps(b.batch) ELSE ReaderStopOps]
    /\ UNCHANGED <<ret, calls, close, packets, readDeadline, sendMutex, bufferedSend,
                   encoded, connClosed, closeSent, cfgVars, logVars, timeVars,
                   loggedIn, expectedIDs,
                   encoderKey, decoderKey, encEnables, decEnables, salt, privateKey,
                   resourcePacks, packQueue, handling, delivered>>

PairInit ==
    \E ids \in DialExpectedIDs, protocol \in {CurrentProtocol, CurrentProtocol + 1} :
        NewConn(Endpoints, {}, <<>>, FixedSalt, FixedKeys, ids,
                DialLogin(protocol, ClientPrivateKey))

PairNext ==
    \/ \E c \in Endpoints : Lives(c) /\ Receive(c)
    \/ \E c \in Endpoints, p \in HandshakeTasks : Lives(c) /\ Enqueue(c, p)
    \/ \E c \in Endpoints, p \in HandshakeTasks : Lives(c) /\ ReadTake(c, p)
    \/ \E c \in Endpoints, p \in HandshakeTasks : Lives(c) /\ Dispatch(c, p)
    \/ \E c \in Endpoints, p \in HandshakeTasks : Lives(c) /\ DoExpect(c, p)
    \/ \E c \in Endpoints, p \in HandshakeTasks : Lives(c) /\ DoEnableEncoder(c, p)
    \/ \E c \in Endpoints, p \in HandshakeTasks : Lives(c) /\ DoEnableDecoder(c, p)
    \/ \E c \in Endpoints, p \in HandshakeTasks : Lives(c) /\ DoSetPackQueue(c, p)
    \/ \E c \in Endpoints, p \in HandshakeTasks : Lives(c) /\ DoSetLoggedIn(c, p)
    \/ \E c \in Endpoints, p \in HandshakeTasks : Lives(c) /\ DoSendConnected(c, p)
    \/ \E c \in Endpoints, p \in HandshakeTasks : Lives(c) /\ DoReturn(c, p)
    \/ \E c \in Endpoints, p \in HandshakeTasks : Lives(c) /\ DoReturnLast(c, p)
    \/ \E c \in Endpoints, p \in HandshakeTasks : Lives(c) /\ Handled(c, p)
    \/ \E c \in Endpoints, p \in HandshakeTasks : Lives(c) /\ FlushLock(c, p)
    \/ \E c \in Endpoints, p \in HandshakeTasks : Lives(c) /\ FlushEncode(c, p)
    \/ \E c \in Endpoints, p \in HandshakeTasks : Lives(c) /\ Write(c, p)
    \/ \E c \in Endpoints, p \in HandshakeTasks : Lives(c) /\ CloseCheck(c, p)
    \/ \E c \in Endpoints, p \in HandshakeTasks : Lives(c) /\ CloseSend(c, p)
    \/ \E c \in Endpoints, p \in HandshakeTasks : Lives(c) /\ ConnClose(c, p)
    \/ \E c \in Endpoints : Lives(c) /\ TickerTick(c)
    \/ \E c \in Endpoints : Lives(c) /\ TickerFlushed(c)
    \/ \E c \in Endpoints : Lives(c) /\ TickerClose(c)

PairSpec == PairInit /\ [][PairNext]_vars

\* The same pair for every salt and every pair of private keys of a bounded set.
SaltOf(k) == [i \in 1..SaltLen |-> (k * (37 * i + 255)) % 256]

Salts == {SaltOf(k) : k \in 0..MaxSaltSeed} \cup {[i \in 1..SaltLen |-> 255]}

PrivateKeys == 2..MaxPrivateKey

KeyInit ==
    \E slt \in Salts, ds \in PrivateKeys, dc \in PrivateKeys,
       protocol \in {CurrentProtocol, CurrentProtocol + 1} :
        NewConn(Endpoints, {}, <<>>, slt,
                [c \in Endpoints |-> IF c = "server" THEN ds ELSE dc],
                {IDServerToClientHandshake, IDPlayStatus}, DialLogin(protocol, dc))

KeySpec == KeyInit /\ [][PairNext]_vars

----------------------------------------------------------------------------
\* Close and the close token

\* A Close() call of connection c is blocked on "conn.close <- true" with the channel
\* full, and every other task has returned or is itself blocked sending the token.
CloseBlocked(c) ==
    \E p \in Closers \cup {TransportReader} :
        /\ At(c, p, "closeSend")
        /\ close[c] = CloseCap
        /\ \A q \in Procs \ {p} :
              pc[c][q] = <<>> \/ At(c, q, "closeSend") \/ At(c, q, "closeResend")

\* C1: however many times Close() is called, and however the calls interleave with
\* the ticker and the readers, the transport is closed at most once, Close sends the
\* close token at most once, and no Close() call stays blocked on the channel.
C1_CloseIdempotent ==
    \A c \in Endpoints :
        /\ connClosed[c] <= 1
        /\ closeSent[c] <= 1
        /\ ~CloseBlocked(c)

\* A task that took the close token in ReadPacket or Read is blocked sending it
\* back: the channel is full again, and every other task has returned or is itself
\* blocked sending the token, so the reader returns only if the user starts a
\* further read, which then blocks in its place.
ReaderBlocked(c, p) ==
    /\ At(c, p, "closeResend")
    /\ close[c] = CloseCap
    /\ \A q \in Procs \ {p} :
          pc[c][q] = <<>> \/ At(c, q, "closeSend") \/ At(c, q, "closeResend")

\* C2: once Close() has signalled close, every ReadPacket pending on an empty queue
\* returns the "connection closed" error: no reader that observed the token stays
\* blocked putting it back.
C2_ReadersNeverBlocked ==
    \A c \in Endpoints : \A p \in Readers : ~ReaderBlocked(c, p)

----------------------------------------------------------------------------
\* The handshake

\* The packets handed to the encoder, in order, each with the key it was encoded under.
RECURSIVE Wire(_)
Wire(batches) ==
    IF batches = <<>> THEN <<>>
    ELSE [i \in 1..Len(Head(batches).batch) |->
              [pk |-> Head(batches).batch[i], key |-> Head(batches).key]]
         \o Wire(Tail(batches))

\* The packets written with WritePacket, in order: those encoded and those buffered.
Written(c) ==
    [i \in 1..Len(Wire(encoded[c])) |-> Wire(encoded[c])[i].pk] \o bufferedSend[c]

\* The transport reader is in ReadPacket or about to dispatch what it returned.
Dispatching(c) ==
    At(c, TransportReader, "readSelect") \/ At(c, TransportReader, "dispatch")

\* C3: on a server and on a client, whatever the peer sends, loggedIn never goes back
\* from true to false, and while it is true no inbound payload is read and dispatched
\* by handleIncoming: the payload stays in the queue for the user.
C3_LoggedInLatch ==
    [][\A c \in Endpoints :
          /\ loggedIn[c] => loggedIn'[c]
          /\ loggedIn'[c] => ~Dispatching(c)'
          /\ loggedIn[c] => UNCHANGED <<expectedIDs[c], packQueue[c]>>]_vars

\* A payload arrived after the login and was left in the queue.
C3_Witness ==
    \E c \in Endpoints :
        /\ loggedIn[c]
        /\ pc[c][TransportReader] = <<>>
        /\ packets[c] # <<>>

\* handleIncoming is about to search expectedIDs for a packet that is neither
\* expected nor Disconnect.
Unexpected(c) ==
    /\ At(c, TransportReader, "dispatch")
    /\ IsPacket(ret[c][TransportReader])
    /\ ~loggedIn[c]
    /\ ret[c][TransportReader].id \notin expectedIDs[c]
    /\ ret[c][TransportReader].id # IDDisconnect

\* C5: while loggedIn is false, the dispatch of a packet that is neither expected nor
\* Disconnect leaves handleIncoming with nothing to do but "return nil": no handler
\* statement follows, so nothing is written and expectedIDs, packQueue,
\* resourcePacks, loggedIn and the keys stay as they are, and the value returned to
\* the transport reader is nil.
C5_UnexpectedDropped ==
    [][\A c \in Endpoints :
          /\ (Unexpected(c) /\ pc'[c][TransportReader] # pc[c][TransportReader])
                => /\ pc'[c][TransportReader] = <<Return(Nil)>> \o Rest(c, TransportReader)
                   /\ UNCHANGED <<expectedIDs, packQueue, resourcePacks, loggedIn,
                                  encoderKey, decoderKey, bufferedSend, encoded>>
          /\ (/\ pc[c][TransportReader] = <<Return(Nil), Op("handled")>>
              /\ pc'[c][TransportReader] # pc[c][TransportReader])
                => /\ ret'[c][TransportReader] = Nil
                   /\ UNCHANGED <<expectedIDs, packQueue, resourcePacks, loggedIn,
                                  encoderKey, decoderKey, bufferedSend, encoded>>]_vars

\* A packet that was not expected has been dropped: handleIncoming returned nil.
C5_Witness ==
    \E c \in Endpoints :
        /\ At(c, TransportReader, "handled")
        /\ ~loggedIn[c]
        /\ handling[c].id = "dropped"
        /\ handling[c].pk.id \notin expectedIDs[c] \cup {IDDisconnect}
        /\ ret[c][TransportReader] = Nil
        /\ Written(c) = <<>>

HandlingDisconnect(c) == handling[c].id = IDDisconnect

FailedStatus(pk) ==
    IF pk.ClientProtocol < CurrentProtocol
    THEN PlayStatusLoginFailedClient
    ELSE PlayStatusLoginFailedServer

\* The first packet the server wrote is the PlayStatus of a protocol mismatch.
Mismatched(c) ==
    /\ Written(c) # <<>>
    /\ Written(c)[1] \in {PlayStatus(PlayStatusLoginFailedClient),
                          PlayStatus(PlayStatusLoginFailedServer)}

OnWire(c, pk) == \E i \in 1..Len(Wire(encoded[c])) : Wire(encoded[c])[i].pk = pk

\* What handleLogin does for a Login of another protocol version, but for the flush:
\* the PlayStatus written is LoginFailedClient for a lower and LoginFailedServer for
\* a higher version and nothing else is written, the connection is closed when
\* handleLogin returns, and no ServerToClientHandshake is written and no encryption
\* enabled then or later.
MismatchHandled(c) ==
    /\ (/\ At(c, TransportReader, "handled")
        /\ handling[c].id = IDLogin
        /\ handling[c].ClientProtocol # CurrentProtocol)
          => /\ Written(c) = <<PlayStatus(FailedStatus(handling[c]))>>
             /\ connClosed[c] >= 1
             /\ closeSent[c] >= 1
    /\ Mismatched(c)
          => /\ \A i \in 1..Len(Written(c)) : Written(c)[i].id # IDServerToClientHandshake
             /\ encEnables[c] = 0 /\ decEnables[c] = 0
             /\ encoderKey[c] = "none" /\ decoderKey[c] = "none"

C8_HandshakePlaintextRestEncrypted ==
    LET wire == Wire(encoded["server"])
    IN  \A i \in 1..Len(wire) :
            wire[i].pk.id = IDServerToClientHandshake
                => /\ wire[i].key = "none"
                   /\ \A j \in (i + 1)..Len(wire) : wire[j].key # "none"

\* C9: on every connection, whatever the peer sends, encoder.EnableEncryption and
\* decoder.EnableEncryption are each called at most once, and together: the counts
\* differ only while the handler that enables both is between the two calls.
C9_EncryptionEnabledOnce ==
    \A c \in Endpoints :
        /\ encEnables[c] <= 1
        /\ decEnables[c] <= 1
        /\ \/ encEnables[c] = decEnables[c]
           \/ /\ encEnables[c] = decEnables[c] + 1
              /\ At(c, TransportReader, "enableDecoder")

----------------------------------------------------------------------------
\* The pair

IsPrefix(s, t) == Len(s) <= Len(t) /\ s = SubSeq(t, 1, Len(s))

\* The protocol version of the Login Dial writes.
DialedProtocol ==
    IF Written("client") # <<>>
    THEN Written("client")[1].ClientProtocol
    ELSE Head(pc["client"][Dialer]).pk.ClientProtocol

HappyServer ==
    <<ServerToClientHandshake(ServerJWT(salt["server"], privateKey["server"])),
      PlayStatus(PlayStatusLoginSuccess),
      ResourcePacksInfo(<<>>, <<>>),
      ResourcePackStack(<<>>, <<>>)>>

HappyClient ==
    <<Login(CurrentProtocol, "ok", PublicKey(privateKey["client"])),
      ClientToServerHandshake,
      ResourcePackClientResponse(PackResponseAllPacksDownloaded, <<>>),
      ResourcePackClientResponse(PackResponseCompleted, <<>>)>>

\* Each side has written a prefix of its packets of the happy path, and no packet
\* before the packet of the peer it answers.
HappyOrder ==
    LET sw == Len(Written("server"))
        cw == Len(Written("client"))
    IN  /\ IsPrefix(Written("server"), HappyServer)
        /\ IsPrefix(Written("client"), HappyClient)
        /\ sw >= 1 => cw >= 1
        /\ cw >= 2 => sw >= 1
        /\ sw >= 2 => cw >= 2
        /\ cw >= 3 => sw >= 3
        /\ sw >= 4 => cw >= 3
        /\ cw >= 4 => sw >= 4

\* Nothing is left to do but tick: every packet written has been encoded, every batch
\* decoded and handled.
Quiescent ==
    /\ Written("client") # <<>>
    /\ \A c \in Endpoints :
          /\ pc[c][TransportReader] = <<>>
          /\ pc[c][Ticker] = TickerLoop
          /\ bufferedSend[c] = <<>>
          /\ received[c] = Len(encoded[Peer(c)])

\* C4: a server without packs and a client of this code, the Login valid and of the
\* server's protocol version: the packets are written in the order
\* ServerToClientHandshake, ClientToServerHandshake, PlayStatus{LoginSuccess},
\* ResourcePacksInfo, ResourcePackClientResponse{AllPacksDownloaded},
\* ResourcePackStack, ResourcePackClientResponse{Completed}, and the exchange does
\* not come to rest before loggedIn is true on both sides.
C4_HappyPath ==
    DialedProtocol = CurrentProtocol
        => /\ HappyOrder
           /\ Quiescent => (loggedIn["server"] /\ loggedIn["client"])

\* The key the server derives in enableEncryption.
ServerKey ==
    Sum256(salt["server"]
           \o Bytes(ScalarMult(PublicKey(privateKey["client"]), privateKey["server"])))

\* C10: for every salt and every pair of private keys, the salt the client decodes
\* from the token is the server's salt, the client's handler of the
\* ServerToClientHandshake returns no error with both keys enabled, and the key the
\* client enables is the key the server enables.
C10_KeysAgree ==
    /\ DecodeString(TrimRight(StdEncodeToString(salt["server"])))
           = [ok |-> TRUE, bytes |-> salt["server"]]
    /\ (/\ At("client", TransportReader, "handled")
        /\ handling["client"].id = IDServerToClientHandshake)
          => /\ ret["client"][TransportReader] = Nil
             /\ encEnables["client"] = 1 /\ decEnables["client"] = 1
    /\ \A c \in Endpoints :
          /\ encEnables[c] >= 1 => encoderKey[c] = ServerKey
          /\ decEnables[c] >= 1 => decoderKey[c] = ServerKey

\* Both sides have enabled both directions, for a salt and keys other than the
\* handshake specifications'.
C10_Witness ==
    /\ salt["server"] # FixedSalt
    /\ privateKey["server"] # ServerPrivateKey
    /\ privateKey["client"] # ClientPrivateKey
    /\ \A c \in Endpoints : encEnables[c] = 1 /\ decEnables[c] = 1
    /\ encoderKey["client"] = decoderKey["server"]
    /\ encoderKey["server"] = decoderKey["client"]
    /\ encoderKey["server"] = encoderKey["client"]
    /\ encoderKey["server"] # "none"

----------------------------------------------------------------------------
\* The send side

\* The payloads of a sequence of batches, in order.
RECURSIVE Flat(_)
Flat(batches) ==
    IF batches = <<>> THEN <<>> ELSE Head(batches).batch \o Flat(Tail(batches))

\* The batches encoder.Encode accepted, of those handed to it.
RECURSIVE Accepted(_)
Accepted(handed) ==
    IF handed = <<>> THEN <<>>
    ELSE (IF Head(handed).ok THEN <<Head(handed).batch>> ELSE <<>>) \o Accepted(Tail(handed))

\* C11 as stated: the concatenation of all batches handed to the encoder, in the
\* order they are handed over, is a prefix of the payloads in the order their Write
\* calls took the send mutex.
C11_HandedOverInOrder ==
    \A c \in traced : IsPrefix(Flat(handedOver[c]), submitted[c])

\* C11, amended: the batches the encoder accepted, concatenated in order, followed by
\* the send buffer, are the payloads in the order their Write calls took the send
\* mutex, so that no payload is reordered, duplicated or lost among the accepted
\* ones; a batch the encoder rejected stays buffered and is handed over again, whole
\* and first, by the next Flush that hands anything over.
C11_AcceptedInOrder ==
    /\ \A c \in Endpoints : Flat(encoded[c]) \o bufferedSend[c] = submitted[c]
    /\ \A c \in traced :
          /\ Accepted(handedOver[c]) = [i \in 1..Len(encoded[c]) |-> encoded[c][i].batch]
          /\ \A k \in 1..Len(handedOver[c]) :
                ~handedOver[c][k].ok
                    => IF k < Len(handedOver[c])
                       THEN IsPrefix(handedOver[c][k].batch, handedOver[c][k + 1].batch)
                       ELSE IsPrefix(handedOver[c][k].batch, bufferedSend[c])

\* Both senders have written, the first payload was rejected once by the encoder and
\* both payloads have been accepted since.
C11_Witness ==
    \E c \in traced :
        /\ Len(submitted[c]) = 2
        /\ submitted[c][1].from # submitted[c][2].from
        /\ Flat(encoded[c]) = submitted[c]
        /\ \E k \in 1..Len(handedOver[c]) : ~handedOver[c][k].ok

\* Task p of connection c performs the body of Flush in this step.
Flushes(c, p) == At(c, p, "flushEncode") /\ pc'[c][p] # pc[c][p]

\* What every Flush does but for the state of the buffer on return: the mutex is
\* held from the Lock to the return and nobody else touches the buffer meanwhile; on
\* an empty buffer the encoder is not called and nothing changes; a buffer that is
\* not empty is handed to the encoder whole, in one call.
FlushUnderMutex ==
    \A c \in traced :
        /\ \A p \in Procs : At(c, p, "flushEncode") => sendMutex[c] = p
        /\ (sendMutex[c] # Free /\ sendMutex'[c] = sendMutex[c])
              => UNCHANGED <<bufferedSend[c], encoded[c], handedOver[c]>>
        /\ \A p \in Procs :
              Flushes(c, p)
                  => /\ sendMutex'[c] = Free
                     /\ IF bufferedSend[c] = <<>>
                        THEN /\ UNCHANGED <<bufferedSend[c], encoded[c], handedOver[c]>>
                             /\ ret'[c][p] = Nil
                        ELSE /\ Len(handedOver'[c]) = Len(handedOver[c]) + 1
                             /\ handedOver'[c][Len(handedOver'[c])].batch = bufferedSend[c]

\* C12 as stated: every Flush holds the send mutex for its whole duration; a Flush on
\* an empty buffer does not call the encoder and changes nothing; a Flush on a buffer
\* that is not empty hands the whole buffer to the encoder in one call and leaves the
\* buffer empty when it returns.
C12_FlushEmptiesBuffer ==
    [][/\ FlushUnderMutex
       /\ \A c \in traced : \A p \in Procs :
             Flushes(c, p) => bufferedSend'[c] = <<>>]_vars

\* C12, amended: as stated, except that the buffer is empty on return only if Flush
\* returns nil; when encoder.Encode fails, Flush returns the error and the buffer
\* stays as it was.
C12_FlushEmptiesBufferUnlessEncodeFails ==
    [][/\ FlushUnderMutex
       /\ \A c \in traced : \A p \in Procs :
             Flushes(c, p)
                 => IF ret'[c][p] = Nil
                    THEN /\ bufferedSend'[c] = <<>>
                         /\ bufferedSend[c] # <<>>
                               => encoded'[c] = Append(encoded[c],
                                      [batch |-> bufferedSend[c], key |-> encoderKey[c]])
                    ELSE /\ ret'[c][p] = ErrEncode
                         /\ bufferedSend[c] # <<>>
                         /\ UNCHANGED <<bufferedSend[c], encoded[c]>>]_vars

\* The flusher's Flush has returned nil with both payloads handed over in one batch
\* and the buffer empty.
C12_Witness ==
    \E c \in traced :
        /\ calls[c][Flusher] = 1
        /\ pc[c][Flusher] = <<>>
        /\ ret[c][Flusher] = Nil
        /\ sendMutex[c] = Free
        /\ bufferedSend[c] = <<>>
        /\ Len(handedOver[c]) = 1
        /\ Len(handedOver[c][1].batch) = 2

----------------------------------------------------------------------------
\* The read deadline

\* Task p of connection c performs the body of SetReadDeadline in this step.
SetsDeadline(c, p) == At(c, p, "setReadDeadline") /\ pc'[c][p] # pc[c][p]

\* C13: SetReadDeadline(t), called directly or through SetDeadline(t), with t earlier
\* than the current time returns the error and leaves conn.readDeadline and the
\* timer armed before as they were; SetDeadline returns what SetReadDeadline
\* returned.
C13_PastDeadlineRejected ==
    [][\A c \in Endpoints : \A p \in Procs :
          /\ (SetsDeadline(c, p) /\ Head(pc[c][p]).t < clock)
                => /\ ret'[c][p] = ErrDeadline
                   /\ UNCHANGED <<readDeadline[c], timers[c]>>
          /\ (At(c, p, "returnLast") /\ pc'[c][p] # pc[c][p])
                => UNCHANGED <<ret[c][p], readDeadline[c], timers[c]>>]_vars

\* The second call of the setter was rejected, and the deadline its first call armed
\* is still armed.
C13_Witness ==
    \E c \in Endpoints :
        /\ calls[c][Setter] = 2
        /\ pc[c][Setter] = <<>>
        /\ ret[c][Setter] = ErrDeadline
        /\ readDeadline[c] = 1
        /\ timers[c] = <<After(StartOfTime, 2)>>
        /\ clock = 2

\* C14: SetReadDeadline called with the zero time returns nil and replaces the
\* deadline armed before by one that does not fire before a million hours have
\* passed.
C14_ZeroClearsDeadline ==
    [][\A c \in Endpoints : \A p \in Procs :
          (SetsDeadline(c, p) /\ Head(pc[c][p]).t = ZeroTime)
              => /\ ret'[c][p] = Nil
                 /\ readDeadline'[c] = Len(timers[c]) + 1
                 /\ timers'[c] = Append(timers[c], After(clock, FarAway))]_vars

\* A ReadPacket of task p waits on the channel of the deadline in force, whose one
\* value another read has received; the queue is empty and the connection open.
Starved(c, p) ==
    /\ At(c, p, "readSelect")
    /\ Head(pc[c][p]).timer # NilChannel
    /\ Head(pc[c][p]).timer = readDeadline[c]
    /\ timers[c][readDeadline[c]].state = "drained"
    /\ packets[c] = <<>>
    /\ close[c] = 0

\* C15: once the armed deadline has fired, no ReadPacket on an empty queue, pending
\* or called afterwards while that deadline is in force, is left waiting: each fails
\* with the read-timeout error.
C15_TimeoutReachesEveryReader ==
    \A c \in Endpoints : \A p \in Readers : ~Starved(c, p)

----------------------------------------------------------------------------
\* The download of packs by the client

\* The pack uuid of connection c is being downloaded, before and after the step.
Awaited(c, uuid) ==
    /\ packQueue[c].role = "client" /\ packQueue'[c].role = "client"
    /\ uuid \in DOMAIN packQueue[c].awaitingPacks
    /\ uuid \in DOMAIN packQueue'[c].awaitingPacks

\* The ResourcePackChunkData that handleIncoming is handling for the pack uuid.
HandlesChunk(c, uuid) ==
    /\ handling[c].id = IDResourcePackChunkData
    /\ handling[c].UUID = uuid

\* handleIncoming passes a ResourcePackChunkData that is expected to its handler.
DispatchesChunk(c) ==
    /\ At(c, TransportReader, "dispatch")
    /\ pc'[c][TransportReader] # pc[c][TransportReader]
    /\ IsPacket(ret[c][TransportReader])
    /\ ret[c][TransportReader].id = IDResourcePackChunkData
    /\ Found(expectedIDs[c], IDResourcePackChunkData)

\* What handleIncoming is to do holds no step that touches the download.
Rejects(ops) ==
    /\ ops # <<>>
    /\ Head(ops).op = "return"
    /\ Head(ops).err # Nil
    /\ \A i \in 1..Len(ops) : ops[i].op \notin {"incExpectedIndex", "sendFrag"}

\* C16: the expectedIndex of a pack being downloaded changes only while a
\* ResourcePackChunkData of that pack with that very index is handled, and then by one;
\* the bytes a fetcher is handed are those of such a chunk, whose index is then one
\* below expectedIndex; a chunk with another index is answered with an error and
\* neither advances expectedIndex nor hands bytes to the fetcher.
C16_ChunkIndexChecked ==
    [][\A c \in Endpoints, uuid \in PackUUIDs :
          /\ (Awaited(c, uuid)
               /\ packQueue'[c].awaitingPacks[uuid].expectedIndex
                      # packQueue[c].awaitingPacks[uuid].expectedIndex)
              => /\ HandlesChunk(c, uuid)
                 /\ handling[c].ChunkIndex = packQueue[c].awaitingPacks[uuid].expectedIndex
                 /\ packQueue'[c].awaitingPacks[uuid].expectedIndex
                        = packQueue[c].awaitingPacks[uuid].expectedIndex + 1
          /\ (At(c, Fetcher(uuid), "recvFrag") /\ At(c, Fetcher(uuid), "bufWrite")')
              => /\ HandlesChunk(c, uuid)
                 /\ Head(pc'[c][Fetcher(uuid)]).data = handling[c].Data
                 /\ packQueue'[c].awaitingPacks[uuid].expectedIndex
                        = handling[c].ChunkIndex + 1
          /\ (/\ DispatchesChunk(c)
               /\ ret[c][TransportReader].UUID = uuid
               /\ packQueue[c].role = "client"
               /\ uuid \in DOMAIN packQueue[c].awaitingPacks
               /\ ret[c][TransportReader].ChunkIndex
                      # packQueue[c].awaitingPacks[uuid].expectedIndex)
              => Rejects(pc'[c][TransportReader])]_vars

\* The first chunk of pack "a" reached its fetcher and the same chunk, sent again,
\* was answered with the error of the index.
C16_Witness ==
    /\ packQueue["client"].role = "client"
    /\ "a" \in DOMAIN packQueue["client"].awaitingPacks
    /\ packQueue["client"].awaitingPacks["a"].expectedIndex = 1
    /\ packQueue["client"].awaitingPacks["a"].buf = <<[len |-> packChunkSize, of |-> PackA]>>
    /\ handling["client"] = ResourcePackChunkData("a", 0, 0, [len |-> packChunkSize, of |-> PackA])
    /\ ret["client"][TransportReader]
           = Err("resource pack chunk data had an unexpected chunk index")

\* How many times the client has written ResourcePackClientResponse{AllPacksDownloaded}.
AllPacksDownloadedSent(c) ==
    Cardinality({i \in 1..Len(Written(c)) :
                    Written(c)[i] = ResourcePackClientResponse(
                                        PackResponseAllPacksDownloaded, <<>>)})

\* Every pack of the ResourcePacksInfo has been fetched whole and every fetcher has
\* run to its end.
Downloaded(c) ==
    /\ packQueue[c].role = "client"
    /\ DOMAIN packQueue[c].downloadingPacks = {}
    /\ DOMAIN packQueue[c].awaitingPacks # {}
    /\ \A uuid \in DOMAIN packQueue[c].awaitingPacks :
           /\ pc[c][Fetcher(uuid)] = <<>>
           /\ BufLen(packQueue[c].awaitingPacks[uuid].buf)
                  = packQueue[c].awaitingPacks[uuid].size
           /\ FromBytes(packQueue[c].awaitingPacks[uuid].buf) # NoPack

\* C17: the client writes ResourcePackClientResponse{AllPacksDownloaded} at most
\* once, and when every pack has been fetched whole and its fetcher has ended, each
\* pack is among the owned packs, packAmount is zero, the response has been written
\* once and expectedIDs is {ResourcePackStack}.
C17_AllPacksDownloadedOnce ==
    \A c \in Endpoints :
        /\ packQueue[c].role = "client" => AllPacksDownloadedSent(c) <= 1
        /\ Downloaded(c)
           => /\ packQueue[c].packAmount = 0
              /\ Len(resourcePacks[c]) = Cardinality(DOMAIN packQueue[c].awaitingPacks)
              /\ AllPacksDownloadedSent(c) = 1
              /\ expectedIDs[c] = {IDResourcePackStack}

----------------------------------------------------------------------------
\* The upload of packs by the server

\* The pack the server is serving.
CurrentPack(c) == packQueue[c].packs[packQueue[c].currentPack]

\* Every chunk of the current pack has been requested in order and answered, and
\* handleIncoming has returned.
ServedWhole(c) ==
    /\ packQueue[c].role = "server"
    /\ packQueue[c].currentPack >= 1
    /\ packQueue[c].currentOffset >= CurrentPack(c).size
    /\ pc[c][TransportReader] = <<>>

\* C18: once every chunk of a pack, of whatever size, has been requested in order
\* and served, the server has advanced: to the next pack, whose ResourcePackDataInfo
\* resets the offset, or, after the last pack, to expecting the
\* ResourcePackClientResponse.
C18_ServedPackAdvances ==
    \A c \in Endpoints :
        ServedWhole(c) => /\ AllDownloaded(packQueue[c])
                          /\ expectedIDs[c] = {IDResourcePackClientResponse}

----------------------------------------------------------------------------
\* The expected packets after the two handshake packets

\* The handler of the packet handleIncoming is handling has returned without error.
HandledWell(c, id) ==
    /\ At(c, TransportReader, "handled")
    /\ IsPacket(handling[c])
    /\ handling[c].id = id
    /\ ret[c][TransportReader] = Nil

\* C19: when the client has handled a valid ServerToClientHandshake (both keys are
\* set and the ClientToServerHandshake is written), expectedIDs is {PlayStatus}.
C19_ExpectsPlayStatus ==
    \A c \in Endpoints :
        HandledWell(c, IDServerToClientHandshake)
            => /\ encEnables[c] >= 1 /\ decEnables[c] >= 1
               /\ \E i \in 1..Len(Written(c)) : Written(c)[i] = ClientToServerHandshake
               /\ expectedIDs[c] = {IDPlayStatus}

----------------------------------------------------------------------------
\* The server's answers to ResourcePackClientResponse

Last(seq) == seq[Len(seq)]

\* The packs a SendPacks response asks for can be served: there is one, and the
\* server owns each of them.
CanSend(c, pk) ==
    /\ pk.PacksToDownload # <<>>
    /\ RequestOk(resourcePacks[c], pk.PacksToDownload)

\* handleIncoming is handling a ResourcePackClientResponse with the response code.
HandlesResponse(c, response) ==
    /\ IsPacket(handling[c])
    /\ handling[c].id = IDResourcePackClientResponse
    /\ handling[c].Response = response

\* The queue serves the first of the packs asked for, from its start, and the
\* ResourcePackDataInfo of that pack is the last packet written.
FirstPackAnnounced(c) ==
    /\ packQueue[c].role = "server"
    /\ Len(packQueue[c].packs) = Len(handling[c].PacksToDownload)
    /\ packQueue[c].currentPack = 1
    /\ packQueue[c].currentOffset = 0
    /\ PackID(CurrentPack(c)) = handling[c].PacksToDownload[1]
    /\ Written(c) # <<>>
    /\ Last(Written(c)) = ResourcePackDataInfo(CurrentPack(c))
    /\ expectedIDs[c] = {IDResourcePackChunkRequest}

\* What is true when the handler of a ResourcePackClientResponse has returned; a
\* SendPacks that cannot be served is held to the same as one that can unless
\* whenServable.
ResponseHandled(c, whenServable) ==
    (At(c, TransportReader, "handled") /\ IsPacket(handling[c])
        /\ handling[c].id = IDResourcePackClientResponse)
    => IF handling[c].Response = PackResponseRefused
       THEN connClosed[c] >= 1
       ELSE IF handling[c].Response = PackResponseSendPacks
       THEN IF whenServable /\ ~CanSend(c, handling[c])
            THEN /\ ret[c][TransportReader] # Nil
                 /\ packQueue[c].role = "server"
                 /\ expectedIDs[c] = {IDResourcePackClientResponse}
            ELSE /\ ret[c][TransportReader] = Nil
                 /\ FirstPackAnnounced(c)
       ELSE IF handling[c].Response = PackResponseAllPacksDownloaded
       THEN /\ ret[c][TransportReader] = Nil
            /\ Written(c) # <<>>
            /\ Last(Written(c)) = ResourcePackStack(
                                      PackEntries(resourcePacks[c], FALSE, FALSE),
                                      PackEntries(resourcePacks[c], TRUE, FALSE))
            /\ expectedIDs[c] = {IDResourcePackClientResponse}
            /\ ~loggedIn[c]
       ELSE IF handling[c].Response = PackResponseCompleted
       THEN /\ ret[c][TransportReader] = Nil
            /\ loggedIn[c]
       ELSE ret[c][TransportReader] # Nil

\* What a step leaves alone while a ResourcePackClientResponse is handled.
ResponseFrame(c, whenServable) ==
    /\ HandlesResponse(c, PackResponseCompleted)
           => UNCHANGED <<Written(c), expectedIDs[c], packQueue[c]>>
    /\ HandlesResponse(c, PackResponseAllPacksDownloaded)
           => UNCHANGED <<expectedIDs[c], packQueue[c], loggedIn[c]>>
    /\ HandlesResponse(c, "other")
           => UNCHANGED <<Written(c), expectedIDs[c], packQueue[c], loggedIn[c],
                          connClosed[c], resourcePacks[c]>>
    /\ (whenServable /\ HandlesResponse(c, PackResponseSendPacks)
           /\ ~CanSend(c, handling[c]))
           => UNCHANGED <<Written(c), expectedIDs[c], loggedIn[c]>>

\* C20: on the server Refused closes the connection; SendPacks creates the queue,
\* writes the ResourcePackDataInfo of the first pack and expects
\* ResourcePackChunkRequest; AllPacksDownloaded writes the ResourcePackStack of the
\* owned packs and leaves expectedIDs and loggedIn as they are; Completed sets
\* loggedIn and writes nothing; any other code is an error that changes nothing.
C20_FollowsResponseCode ==
    [][\A c \in Endpoints : ResponseFrame(c, FALSE) /\ ResponseHandled(c, FALSE)']_vars

\* C20 as amended: the same, with SendPacks as claimed when it names at least one
\* pack and only packs the server owns; otherwise the handler replaces the queue and
\* returns an error, having written nothing and with expectedIDs still
\* {ResourcePackClientResponse}.
C20_FollowsResponseCodeWhenServable ==
    [][\A c \in Endpoints : ResponseFrame(c, TRUE) /\ ResponseHandled(c, TRUE)']_vars

\* The server has answered AllPacksDownloaded with the ResourcePackStack and then
\* SendPacks for both packs with the ResourcePackDataInfo of the first.
C20_Witness ==
    /\ HandledWell("server", IDResourcePackClientResponse)
    /\ handling["server"].Response = PackResponseSendPacks
    /\ FirstPackAnnounced("server")
    /\ CurrentPack("server") = PackA
    /\ \E i \in 1..Len(Written("server")) :
           Written("server")[i] = ResourcePackStack(PackEntries(<<PackA, PackB>>, FALSE, FALSE),
                                                    PackEntries(<<PackA, PackB>>, TRUE, FALSE))

----------------------------------------------------------------------------
\* The end of the client's login: ResourcePackStack

\* Every pack the ResourcePackStack lists is among the packs the client owns, with
\* the same UUID, version and kind.
AllListedOwned(c, pk) ==
    /\ \A i \in 1..Len(pk.TexturePacks) :
           hasPack(c, pk.TexturePacks[i].UUID, pk.TexturePacks[i].Version, FALSE)
    /\ \A i \in 1..Len(pk.BehaviourPacks) :
           hasPack(c, pk.BehaviourPacks[i].UUID, pk.BehaviourPacks[i].Version, TRUE)

\* handleIncoming passes a ResourcePackStack that is expected to its handler.
DispatchesStack(c) ==
    /\ At(c, TransportReader, "dispatch")
    /\ pc'[c][TransportReader] # pc[c][TransportReader]
    /\ IsPacket(ret[c][TransportReader])
    /\ ret[c][TransportReader].id = IDResourcePackStack
    /\ Found(expectedIDs[c], IDResourcePackStack)

\* The handler returns an error and does nothing else.
Refuses(ops) ==
    /\ ops # <<>>
    /\ Head(ops).op = "return"
    /\ Head(ops).err # Nil
    /\ \A i \in 1..Len(ops) : ops[i].op \notin {"sendConnected", "setLoggedIn", "write"}

CompletedWritten(c) ==
    \E i \in 1..Len(Written(c)) :
        Written(c)[i] = ResourcePackClientResponse(PackResponseCompleted, <<>>)

\* Dial has received the connected signal.
ConnectedReceived(c) == pc[c][Dialer] = <<>>

\* C21: on the client a ResourcePackStack listing a pack that is not owned is
\* answered with an error, without the connected signal, with loggedIn false and
\* no Completed response; one whose packs are all owned ends with the connected
\* signal sent, loggedIn true and the Completed response written, in that order,
\* and the signal is sent while loggedIn is false, hence once.
C21_StackEndsLogin ==
    [][\A c \in Endpoints :
          /\ (DispatchesStack(c) /\ ~AllListedOwned(c, ret[c][TransportReader]))
                 => Refuses(pc'[c][TransportReader])
          /\ (DispatchesStack(c) /\ AllListedOwned(c, ret[c][TransportReader]))
                 => ~Refuses(pc'[c][TransportReader])
          /\ (At(c, TransportReader, "handled")' /\ IsPacket(handling'[c])
                 /\ handling'[c].id = IDResourcePackStack)
                 => IF ret'[c][TransportReader] = Nil
                    THEN ConnectedReceived(c)' /\ loggedIn'[c] /\ CompletedWritten(c)'
                    ELSE ~ConnectedReceived(c)' /\ ~loggedIn'[c] /\ ~CompletedWritten(c)'
          /\ (~ConnectedReceived(c) /\ ConnectedReceived(c)')
                 => ~loggedIn[c] /\ ~loggedIn'[c] /\ ~CompletedWritten(c)'
          /\ (packQueue[c].role = "client" /\ ~loggedIn[c] /\ loggedIn'[c])
                 => ConnectedReceived(c) /\ ~CompletedWritten(c)'
          /\ (packQueue[c].role = "client" /\ CompletedWritten(c)') => loggedIn[c]]_vars

\* The client has downloaded pack "b" and handled the ResourcePackStack that lists
\* it: Dial has the signal, loggedIn is true and the Completed response is written.
C21_Witness ==
    /\ HandledWell("client", IDResourcePackStack)
    /\ resourcePacks["client"] = <<PackB>>
    /\ ConnectedReceived("client")
    /\ loggedIn["client"]
    /\ CompletedWritten("client")

----------------------------------------------------------------------------
\* The tasks that touch the fields of the handshake

\* The step is one of the task that runs handleIncoming.
ByTransportReader(c) == pc'[c][TransportReader] # pc[c][TransportReader]

\* C22: every step that writes expectedIDs, packQueue, resourcePacks or loggedIn
\* of a connection is a step of the task that runs handleIncoming.
C22_OnlyTransportReaderWrites ==
    [][\A c \in Endpoints :
          (\/ expectedIDs'[c] # expectedIDs[c]
           \/ packQueue'[c] # packQueue[c]
           \/ resourcePacks'[c] # resourcePacks[c]
           \/ loggedIn'[c] # loggedIn[c])
          => ByTransportReader(c)]_vars


----------------------------------------------------------------------------
\* The read that handleIncoming does for itself before the login

\* handleIncoming has queued its payload and is inside its own ReadPacket.
SelfReading(c) == At(c, TransportReader, "readSelect")

\* C23: while loggedIn is false, the payload that handleIncoming queued is read by
\* that same call of handleIncoming, also when a user task calls ReadPacket at the
\* same time: whenever the call is inside its own ReadPacket, the payload it
\* queued is still in the inbound queue for it to take.
C23_SelfReadFindsPayload ==
    \A c \in Endpoints :
        (SelfReading(c) /\ ~loggedIn[c] /\ close[c] = 0) => packets[c] # <<>>


----------------------------------------------------------------------------
\* The server's answers to ResourcePackChunkRequest

\* handleIncoming passes a ResourcePackChunkRequest that is expected to its handler.
DispatchesRequest(c) ==
    /\ At(c, TransportReader, "dispatch")
    /\ pc'[c][TransportReader] # pc[c][TransportReader]
    /\ IsPacket(ret[c][TransportReader])
    /\ ret[c][TransportReader].id = IDResourcePackChunkRequest
    /\ Found(expectedIDs[c], IDResourcePackChunkRequest)

\* The request names the pack being served and the chunk at the current offset.
InTurn(c, pk) ==
    /\ CurrentPack(c).uuid = pk.UUID
    /\ packQueue[c].currentOffset = pk.ChunkIndex * packChunkSize

\* The handler returns an error, writes nothing and leaves the queue alone.
RefusesRequest(ops) ==
    /\ ops # <<>>
    /\ Head(ops).op = "return"
    /\ Head(ops).err # Nil
    /\ \A i \in 1..Len(ops) : ops[i].op \notin {"write", "setPackQueue"}

\* The handler first moves the offset one chunk on and then writes the
\* ResourcePackChunkData of the request, read at the offset before the call.
AnswersRequest(c, pk, ops) ==
    /\ Len(ops) >= 2
    /\ ops[1] = SetPackQueue([packQueue[c] EXCEPT !.currentOffset = @ + packChunkSize])
    /\ ops[2].op = "write"
    /\ ops[2].pk.id = IDResourcePackChunkData
    /\ ops[2].pk.UUID = pk.UUID
    /\ ops[2].pk.ChunkIndex = pk.ChunkIndex
    /\ ops[2].pk.DataOffset = packQueue[c].currentOffset

\* The transport reader writes a ResourcePackChunkData.
WritesChunk(c) ==
    /\ At(c, TransportReader, "write")
    /\ pc'[c][TransportReader] # pc[c][TransportReader]
    /\ Head(pc[c][TransportReader]).pk.id = IDResourcePackChunkData

\* The bytes the chunk carries are fewer than a whole chunk.
ShortRead(pk) == pk.Data.len < packChunkSize

----------------------------------------------------------------------------
\* The end of the periodic flush task

\* The goroutine of newConn has returned.
TickerEnded(c) == pc[c][Ticker] = <<>>

\* The step is one of task p at the operation named.
StepAt(c, p, name) == At(c, p, name) /\ pc'[c][p] # pc[c][p]

----------------------------------------------------------------------------
\* What the server's loggedIn stands for

\* EnableEncryption has been called on the encoder and on the decoder.
Encrypted(c) == encoderKey[c] # "none" /\ decoderKey[c] # "none"

\* C26: a server connection has loggedIn true only after a Login that passed the
\* protocol check, the verification and the validation, that is, after handleLogin
\* enabled encryption on the encoder and on the decoder.
C26_LoggedInMeansVerified ==
    loggedIn["server"] => Encrypted("server")


----------------------------------------------------------------------------
\* The return of handleIncoming before the login

\* The task still has the operation named to perform.
Pending(c, p, name) == \E i \in 1..Len(pc[c][p]) : pc[c][p][i].op = name

\* handleIncoming is in its own ReadPacket and the inbound queue is empty: it goes
\* on only with a further payload, a deadline or a close token.
AwaitsPayload(c) == At(c, TransportReader, "readSelect") /\ packets[c] = <<>>

\* handleIncoming is at "conn.connected <- true" and no task will receive.
AwaitsDial(c) ==
    At(c, TransportReader, "sendConnected") /\ ~Pending(c, Dialer, "recvConnected")

\* handleIncoming is at "downloadingPack.newFrag <- pk.Data" and the fetcher of the
\* pack will not receive again.
AwaitsFetcher(c) ==
    /\ At(c, TransportReader, "sendFrag")
    /\ ~Pending(c, Fetcher(Head(pc[c][TransportReader]).uuid), "recvFrag")

\* C27: while loggedIn is false a call of handleIncoming is never left waiting for
\* something only a later payload, a deadline, Close or another task's receive
\* could provide: not in its ReadPacket on an empty queue (after a payload that
\* could not be decoded), not at the send of the connected signal, not at the send
\* of a fragment to a fetcher that has finished.
C27_HandleIncomingReturns ==
    \A c \in Endpoints :
        ~loggedIn[c] => ~AwaitsPayload(c) /\ ~AwaitsDial(c) /\ ~AwaitsFetcher(c)

====
